---- MODULE Spec2Model ----
(***************************************************************************)
(* A model of the page-size-preserving pipeline of pdf-reader:             *)
(*   - PDFExporter   (src/src/server/export.ts)                            *)
(*   - PDFProcessor  (src/src/server/pdf.ts)                               *)
(*   - ImageProcessor (src/unnamed/part_005)                               *)
(*   - PageRenderer  (src/unnamed/part_006)                                *)
(*   - the HTTP export handler (src/unnamed/part_003)                      *)
(*                                                                         *)
(* Lengths in points are kept in hundredths of a point (595.28 pt is       *)
(* 59528), real-valued parameters in tenths (gamma 1.0 is 10).             *)
(***************************************************************************)
EXTENDS Integers, Sequences, FiniteSets, TLC

VARIABLES
    \* ---- PDFExporter.exportProcessedPDF / exportWithMetadata
    pages,          \* the ProcessedPage[] argument of the running export
    pdfDoc,         \* the pdf-lib document under construction: its pages
    idx,            \* the loop variable i, 1-based
    exportFn,       \* which export function is running
    exportPc,       \* "idle" | "loop" | "done"
    exportResult,   \* what the export returned or threw
    request,        \* the HTTP export request that built `pages`, if any
    \* ---- PDFProcessor
    documents,          \* Map id -> the mupdf document (the handle)
    documentMetadata,   \* Map id -> PDFDocument
    originalBuffers,    \* Map id -> the file's Buffer
    procResult,         \* what the last PDFProcessor call returned or threw
    \* ---- ImageProcessor
    imgCall,        \* the call made: which method, on what, with which arguments
    applied,        \* the stages processImage applied, in the order applied
    rawIn,          \* the raw buffer replaceColor decoded (part_005:432-436)
    imgResult,      \* what the call returned or threw
    \* ---- PageRenderer
    renderCall,     \* the call made: which method, with which arguments
    renderResult,   \* what the call returned or threw
    \* ---- PDFExporter.exportInBatches
    batches,        \* the running call: pages, batchSize, i, results, pc
    \* ---- POST /api/pdf/:id/export, requests in flight
    sessions,       \* each export request: its arguments and where its handler is
    renderLog,      \* the renderPage calls made by the handlers, in the order made
    \* ---- App (the client component)
    app             \* currentPDF, ccccClickCount, ccccDisabled and the last export call

exportVars == <<pages, pdfDoc, idx, exportFn, exportPc, exportResult, request>>
procVars == <<documents, documentMetadata, originalBuffers, procResult>>

imageVars == <<imgCall, applied, rawIn, imgResult>>

renderVars == <<renderCall, renderResult>>

batchVars == <<batches>>

sessionVars == <<sessions, renderLog>>

appVars == <<app>>

vars == <<exportVars, procVars, imageVars, renderVars, batchVars, sessionVars, appVars>>

\* What a step of each component leaves alone.
exportFrame == <<procVars, imageVars, renderVars, batchVars, sessionVars, appVars>>
procFrame == <<exportVars, imageVars, renderVars, batchVars, sessionVars, appVars>>
imageFrame == <<exportVars, procVars, renderVars, batchVars, sessionVars, appVars>>
renderFrame == <<exportVars, procVars, imageVars, batchVars, sessionVars, appVars>>
batchFrame == <<exportVars, procVars, imageVars, renderVars, sessionVars, appVars>>
sessionFrame == <<exportVars, procVars, imageVars, renderVars, batchVars, appVars>>
appFrame == <<exportVars, procVars, imageVars, renderVars, batchVars, sessionVars>>

\* JavaScript's undefined, where an object is expected.
None == [undefined |-> TRUE]

\* The export requests that can be in flight together, and a request that
\* has not arrived.
SessionIds == {"r1", "r2"}
\* App.tsx:443-452: the component's state after mounting.
InitialApp ==
    [currentPDF |-> None, ccccClickCount |-> 0, ccccDisabled |-> FALSE,
     exported |-> None]

IdleSession ==
    [pc |-> "idle", id |-> "none", pageIndices |-> <<>>, k |-> 0, status |-> 0]
NoSessions == [r \in SessionIds |-> IdleSession]

(***************************************************************************)
(* Data                                                                    *)
(***************************************************************************)

\* PageBounds as pdf.ts builds it from a rectangle (x0, y0, x1, y1).
MkBounds(x0, y0, x1, y1) ==
    [x0 |-> x0, y0 |-> y0, x1 |-> x1, y1 |-> y1,
     width_pt |-> x1 - x0, height_pt |-> y1 - y0]

BoundsA4     == MkBounds(0, 0, 59528, 84189)
BoundsLetter == MkBounds(0, 0, 61200, 79200)

\* An image buffer: what its bytes decode to, and its byte length.
MkImage(format, length, w, h) ==
    [format |-> format, length |-> length, width_px |-> w, height_px |-> h]

ImgPng150 == MkImage("png", 5000, 1240, 1754)   \* an A4 page rendered at 150 DPI
ImgJpg72  == MkImage("jpeg", 3000, 595, 841)    \* an A4 page rendered at 72 DPI
ImgBad    == MkImage("bad", 10, 0, 0)           \* bytes that are no image
ImgEmpty  == MkImage("bad", 0, 0, 0)            \* Buffer.alloc(0)

\* The largest page list handed to an export.
MaxPages == 2

PageIndices == 0 .. 1

ProcessedPages ==
    [pageIndex      : PageIndices,
     bounds         : {BoundsA4, BoundsLetter},
     originalImage  : {None, ImgPng150, ImgBad},
     processedImage : {None, ImgEmpty, ImgJpg72, ImgPng150}]

RECURSIVE SeqsUpTo(_, _)
SeqsUpTo(S, n) ==
    IF n = 0 THEN {<<>>}
    ELSE LET shorter == SeqsUpTo(S, n - 1)
         IN  shorter \cup {Append(s, x) : s \in {t \in shorter : Len(t) = n - 1}, x \in S}

(***************************************************************************)
(* PDFExporter                                                             *)
(***************************************************************************)

\* A Buffer is an object: truthy whatever its length; undefined is falsy.
Truthy(v) == v # None

\* export.ts:19,24: the size handed to pdfDoc.addPage.
PageSizeFromPixels(page) ==
    LET img == IF Truthy(page.processedImage) THEN page.processedImage
               ELSE page.originalImage
    IN  IF img = None THEN <<0, 0>> ELSE <<img.width_px * 100, img.height_px * 100>>

PageSize(page) == <<page.bounds.width_pt, page.bounds.height_pt>>

\* export.ts:27: page.processedImage || page.originalImage.
ImageToEmbedOriginalFirst(page) ==
    IF Truthy(page.originalImage) THEN page.originalImage ELSE page.processedImage

ImageToEmbed(page) ==
    IF Truthy(page.processedImage) THEN page.processedImage ELSE page.originalImage

\* pdf-lib parses the bytes when embedding: embedPng throws unless they are a
\* PNG, embedJpg throws unless they are a JPEG.
EmbedPngOk(img) == img.format = "png"
EmbedJpgOk(img) == img.format = "jpeg"

\* export.ts:33-67: the formats tried for an image, in order, up to and
\* including the first that embeds.
EmbedAttemptsPngOnly(img) == <<"png">>

EmbedAttempts(img) ==
    IF EmbedPngOk(img) THEN <<"png">> ELSE <<"png", "jpeg">>

\* The format the image ended up embedded as, "none" when every attempt threw.
EmbeddedAs(img, attempts) ==
    IF \E k \in 1 .. Len(attempts) : attempts[k] = "png" /\ EmbedPngOk(img) THEN "png"
    ELSE IF \E k \in 1 .. Len(attempts) : attempts[k] = "jpeg" /\ EmbedJpgOk(img) THEN "jpeg"
    ELSE "none"

\* export.ts:65: the page the embedding error names.
EmbedErrorPageLoopCounter(i, page) == i

EmbedErrorPage(i, page) == page.pageIndex

\* export.ts:24,38-43: the page added to the document: its size, the image
\* drawn on it (None while nothing is drawn) and the rectangle the image is
\* drawn into. `source` records the pageIndex of the ProcessedPage it was made
\* from.
OutPage(page, img, as, attempts) ==
    [width    |-> PageSize(page)[1],
     height   |-> PageSize(page)[2],
     image    |-> img,
     as       |-> as,
     attempts |-> attempts,
     drawn    |-> [x |-> 0, y |-> 0, width |-> page.bounds.width_pt,
                   height |-> page.bounds.height_pt],
     source   |-> page.pageIndex]

\* export.ts:24: pdfDoc.addPage appends.
AddPagePrepend(doc, p) == <<p>> \o doc

AddPage(doc, p) == Append(doc, p)

\* export.ts:76-80 / 324-328: the catch block wraps whatever was thrown.
Thrown(fn, inner, attempts) ==
    [kind     |-> "error",
     message  |-> IF fn = "exportProcessedPDF" THEN "Failed to export PDF: " \o inner.text
                  ELSE "Failed to export PDF with metadata: " \o inner.text,
     page     |-> inner.page,
     attempts |-> attempts]

\* A direct call of exportProcessedPDF(pages) (export.ts:11-15).
CallExport ==
    /\ exportPc = "idle"
    /\ \E ps \in SeqsUpTo(ProcessedPages, MaxPages) : pages' = ps
    /\ pdfDoc' = <<>>
    /\ idx' = 1
    /\ exportFn' = "exportProcessedPDF"
    /\ exportPc' = "loop"
    /\ UNCHANGED <<exportResult, request>>
    /\ UNCHANGED exportFrame

\* One iteration of the page loop of exportProcessedPDF (export.ts:17-68).
ExportIteration ==
    /\ exportPc = "loop"
    /\ exportFn = "exportProcessedPDF"
    /\ idx <= Len(pages)
    /\ UNCHANGED exportFrame
    /\ LET page     == pages[idx]
           img      == ImageToEmbed(page)
           attempts == IF img = None THEN <<>> ELSE EmbedAttempts(img)
           as       == IF img = None THEN "none" ELSE EmbeddedAs(img, attempts)
       IN  IF img = None
           THEN \* export.ts:29-31
                /\ exportResult' =
                       Thrown(exportFn,
                              [text |-> "No image data available for page",
                               page |-> page.pageIndex], attempts)
                /\ exportPc' = "done"
                /\ pdfDoc' = AddPage(pdfDoc, OutPage(page, None, "none", attempts))
                /\ UNCHANGED <<pages, idx, exportFn, request>>
           ELSE IF as = "none"
           THEN \* export.ts:62-66
                /\ exportResult' =
                       Thrown(exportFn,
                              [text |-> "Failed to embed image for page",
                               page |-> EmbedErrorPage(idx, page)], attempts)
                /\ exportPc' = "done"
                /\ pdfDoc' = AddPage(pdfDoc, OutPage(page, None, "none", attempts))
                /\ UNCHANGED <<pages, idx, exportFn, request>>
           ELSE /\ pdfDoc' = AddPage(pdfDoc, OutPage(page, img, as, attempts))
                /\ idx' = idx + 1
                /\ UNCHANGED <<pages, exportFn, exportPc, exportResult, request>>

\* export.ts:70-74: pdfDoc.save() and the return.
ExportSave ==
    /\ exportPc = "loop"
    /\ idx > Len(pages)
    /\ exportResult' = [kind |-> "bytes", doc |-> pdfDoc]
    /\ exportPc' = "done"
    /\ UNCHANGED <<pages, pdfDoc, idx, exportFn, request>>
    /\ UNCHANGED exportFrame


(***************************************************************************)
(* The decoding collaborator (mupdf): a file is what the bytes decode to.  *)
(***************************************************************************)

\* The rectangle page.getBounds() reports, or Unreadable when loadPage or
\* getBounds throws for that page.
Unreadable == [unreadable |-> TRUE]
Rect(x0, y0, x1, y1) == [x0 |-> x0, y0 |-> y0, x1 |-> x1, y1 |-> y1]

RectLetter == Rect(1000, 2000, 62200, 81200)    \* 612 x 792 pt, origin off zero
RectEmpty  == Rect(0, 0, 0, 84189)              \* a zero-width rectangle
RectA4     == Rect(0, 0, 59528, 84189)

PageRects == {RectLetter, RectEmpty, Unreadable}

\* The most pages held open at once, over all the documents of the registry.
MaxOpenPages == 2

Password == "secret"
Passwords == {Password, "guess"}

\* kind: "plain" needs no password; "locked" needs Password; "corrupt" needs
\* no password and its page count cannot be read; "garbage" does not open.
Files ==
    [kind : {"plain", "locked"}, rects : SeqsUpTo(PageRects, MaxOpenPages)]
    \cup [kind : {"corrupt", "garbage"}, rects : {<<>>}]

DocIds == {"pdf_a", "pdf_b"}

\* A mupdf document object: the file and whether a password was accepted.
Handle(file) == [file |-> file, unlocked |-> FALSE]

needsPassword(doc) == doc.file.kind = "locked" /\ ~doc.unlocked

Throws == -1

\* document.countPages(): the count, or Throws. A document still locked may
\* report its count or refuse (whenLocked chooses).
countPages(doc, whenLocked) ==
    IF doc.file.kind = "corrupt" THEN Throws
    ELSE IF needsPassword(doc) /\ whenLocked = "throws" THEN Throws
    ELSE Len(doc.file.rects)

CountOutcomes == {"throws", "count"}

(***************************************************************************)
(* PDFProcessor                                                            *)
(***************************************************************************)

\* pdf.ts:174-181: the A4 fallback.
FallbackBounds == MkBounds(0, 0, 59528, 84189)

\* pdf.ts:157-182: the entry pushed for page i (0-based).
BoundsOfPage(doc, i) ==
    LET r == doc.file.rects[i + 1]
    IN  IF r = Unreadable THEN FallbackBounds
        ELSE MkBounds(r.x0, r.y0, r.x1, r.y1)

\* pdf.ts:153-185: the loop of getPageBounds over pageCount pages.
RECURSIVE BoundsLoopStopAtFailure(_, _, _)
BoundsLoopStopAtFailure(doc, i, pageCount) ==
    IF i >= pageCount \/ doc.file.rects[i + 1] = Unreadable THEN <<>>
    ELSE <<BoundsOfPage(doc, i)>> \o BoundsLoopStopAtFailure(doc, i + 1, pageCount)

RECURSIVE BoundsLoop(_, _, _)
BoundsLoop(doc, i, pageCount) ==
    IF i >= pageCount THEN <<>>
    ELSE <<BoundsOfPage(doc, i)>> \o BoundsLoop(doc, i + 1, pageCount)

Error(text) == [kind |-> "error", message |-> text]
Returned(value) == [kind |-> "value", value |-> value]

\* pdf.ts:147-186 getPageBounds, as a value: the bounds array or the error.
getPageBounds(docs, id, whenLocked) ==
    IF id \notin DOMAIN docs THEN Error("Document not found")
    ELSE IF countPages(docs[id], whenLocked) = Throws THEN Error("countPages failed")
    ELSE [kind |-> "bounds",
          bounds |-> BoundsLoop(docs[id], 0, countPages(docs[id], whenLocked))]

Put(map, k, v) == [x \in DOMAIN map \cup {k} |-> IF x = k THEN v ELSE map[x]]
Delete(map, k) == [x \in DOMAIN map \ {k} |-> map[x]]
EmptyMap == [x \in {} |-> None]

\* pdf.ts:342-346: a fresh id.
FreshIds == DocIds \ (DOMAIN documents \cup DOMAIN documentMetadata
                      \cup DOMAIN originalBuffers)

RECURSIVE OpenPages(_, _)
OpenPages(docs, ids) ==
    IF ids = {} THEN 0
    ELSE LET id == CHOOSE x \in ids : TRUE
         IN  Len(docs[id].file.rects) + OpenPages(docs, ids \ {id})

\* pdf.ts:15-89 openDocument.
openDocument(file, id, whenLocked) ==
    /\ id \in FreshIds
    /\ OpenPages(documents, DOMAIN documents) + Len(file.rects) <= MaxOpenPages
    /\ UNCHANGED procFrame
    /\ IF file.kind = "garbage"
       THEN \* pdf.ts:18 throws: nothing was registered
            /\ procResult' = [op |-> "openDocument", id |-> id,
                              out |-> Error("Failed to open PDF")]
            /\ UNCHANGED <<documents, documentMetadata, originalBuffers>>
       ELSE LET doc   == Handle(file)
                docs1 == Put(documents, id, doc)
                np    == needsPassword(doc)
                cnt   == countPages(doc, whenLocked)
                pageCount == IF cnt = Throws THEN 0 ELSE cnt
                bnds  == getPageBounds(docs1, id, whenLocked)
                pdf   == [id |-> id, pageCount |-> pageCount, needsPassword |-> np,
                          isAuthenticated |-> ~np,
                          pages |-> IF np THEN <<>> ELSE bnds.bounds]
            IN  /\ documents' = docs1                              \* pdf.ts:21
                /\ originalBuffers' = Put(originalBuffers, id, file)  \* pdf.ts:22
                /\ IF cnt = Throws /\ ~np
                   THEN \* pdf.ts:39 rethrows
                        /\ procResult' = [op |-> "openDocument", id |-> id,
                                          out |-> Error("Failed to open PDF")]
                        /\ UNCHANGED documentMetadata
                   ELSE /\ documentMetadata' = Put(documentMetadata, id, pdf)  \* pdf.ts:68
                        /\ procResult' =
                               [op |-> "openDocument", id |-> id,
                                out |-> IF ~np /\ pdf.pageCount = 0      \* pdf.ts:79-81
                                        THEN Error("Failed to open PDF")
                                        ELSE [kind |-> "document", doc |-> pdf]]

\* pdf.ts:107: mupdf accepts the password of a locked file; a file that needs
\* none accepts any.
PasswordAcceptedAny(doc, password) == TRUE

PasswordAccepted(doc, password) ==
    doc.file.kind # "locked" \/ password = Password

\* pdf.ts:97-140 authenticatePassword.
authenticatePassword(id, password) ==
    /\ UNCHANGED procFrame
    /\ IF id \notin DOMAIN documents
       THEN /\ procResult' = [op |-> "authenticatePassword", id |-> id,
                              password |-> password, out |-> Error("Document not found")]
            /\ UNCHANGED <<documents, documentMetadata, originalBuffers>>
       ELSE LET doc     == documents[id]
                success == PasswordAccepted(doc, password)
                doc1    == [doc EXCEPT !.unlocked = TRUE]
                docs1   == [documents EXCEPT ![id] = doc1]
                cnt     == countPages(doc1, "count")
                bnds    == getPageBounds(docs1, id, "count")
            IN  /\ UNCHANGED originalBuffers
                /\ IF ~success
                   THEN /\ procResult' = [op |-> "authenticatePassword", id |-> id,
                                          password |-> password, out |-> Returned(FALSE)]
                        /\ UNCHANGED <<documents, documentMetadata>>
                   ELSE /\ documents' = docs1
                        /\ IF id \notin DOMAIN documentMetadata
                           THEN \* pdf.ts:113: no metadata, nothing to update
                                /\ procResult' = [op |-> "authenticatePassword", id |-> id,
                                                  password |-> password, out |-> Returned(TRUE)]
                                /\ UNCHANGED documentMetadata
                           ELSE IF cnt = Throws
                           THEN \* pdf.ts:115 throws, caught at 136-139
                                /\ procResult' = [op |-> "authenticatePassword", id |-> id,
                                                  password |-> password, out |-> Returned(FALSE)]
                                /\ UNCHANGED documentMetadata
                           ELSE /\ documentMetadata' =
                                       [documentMetadata EXCEPT
                                           ![id].isAuthenticated = TRUE,     \* pdf.ts:118
                                           ![id].pageCount = cnt,            \* pdf.ts:119
                                           ![id].pages = bnds.bounds]        \* pdf.ts:120
                                /\ procResult' = [op |-> "authenticatePassword", id |-> id,
                                                  password |-> password, out |-> Returned(TRUE)]

\* pdf.ts:147-186 getPageBounds, called from outside.
getPageBoundsCall(id, whenLocked) ==
    /\ procResult' = [op |-> "getPageBounds", id |-> id,
                      out |-> getPageBounds(documents, id, whenLocked)]
    /\ UNCHANGED <<documents, documentMetadata, originalBuffers>>
    /\ UNCHANGED procFrame

\* pdf.ts:194-217 getPageBound.
getPageBound(id, pageIndex) ==
    /\ procResult' =
           [op |-> "getPageBound", id |-> id, pageIndex |-> pageIndex,
            out |-> IF id \notin DOMAIN documents THEN Error("Document not found")
                    ELSE IF pageIndex >= Len(documents[id].file.rects)
                            \/ documents[id].file.rects[pageIndex + 1] = Unreadable
                         THEN Error("Failed to get page bounds")
                         ELSE [kind |-> "bound",
                               bound |-> BoundsOfPage(documents[id], pageIndex)]]
    /\ UNCHANGED <<documents, documentMetadata, originalBuffers>>
    /\ UNCHANGED procFrame

\* A closeDocument that forgets the original buffer.
closeDocumentKeepBuffer(maps, id) ==
    IF id \in DOMAIN maps.documents
    THEN [documents        |-> Delete(maps.documents, id),
          documentMetadata |-> Delete(maps.documentMetadata, id),
          originalBuffers  |-> maps.originalBuffers]
    ELSE maps

\* pdf.ts:307-320 closeDocument, as a change of the three maps.
closeDocument(maps, id) ==
    IF id \in DOMAIN maps.documents
    THEN [documents        |-> Delete(maps.documents, id),
          documentMetadata |-> Delete(maps.documentMetadata, id),
          originalBuffers  |-> Delete(maps.originalBuffers, id)]
    ELSE maps

Maps == [documents |-> documents, documentMetadata |-> documentMetadata,
         originalBuffers |-> originalBuffers]

closeDocumentCall(id) ==
    /\ documents' = closeDocument(Maps, id).documents
    /\ documentMetadata' = closeDocument(Maps, id).documentMetadata
    /\ originalBuffers' = closeDocument(Maps, id).originalBuffers
    /\ procResult' = [op |-> "closeDocument", id |-> id, out |-> None]
    /\ UNCHANGED procFrame

\* pdf.ts:325-330 closeAllDocuments: closeDocument for every key of documents
\* (a Map iterator visits each key once, also while keys are deleted), then
\* originalBuffers.clear().
RECURSIVE closeEach(_, _)
closeEach(maps, ids) ==
    IF ids = {} THEN maps
    ELSE LET id == CHOOSE x \in ids : TRUE
         IN  closeEach(closeDocument(maps, id), ids \ {id})

closeAllDocuments ==
    /\ documents' = closeEach(Maps, DOMAIN documents).documents
    /\ documentMetadata' = closeEach(Maps, DOMAIN documents).documentMetadata
    /\ originalBuffers' = EmptyMap
    /\ procResult' = [op |-> "closeAllDocuments", out |-> None]
    /\ UNCHANGED procFrame

\* pdf.ts:335-337 getOpenDocumentCount: this.documents.size.
getOpenDocumentCount(docs) == Cardinality(DOMAIN docs)

\* pdf.ts:288-292 isDocumentReady.
isDocumentReady(id) ==
    /\ id \in DOMAIN documents
    /\ id \in DOMAIN documentMetadata
    /\ documentMetadata[id].isAuthenticated

\* part_003:204-240 POST /api/pdf/:id/render, up to the call of renderPage:
\* reached tells whether pageRenderer.renderPage was called.
HttpRender(id, pageIndex, whenLocked) ==
    /\ UNCHANGED <<documents, documentMetadata, originalBuffers>>
    /\ UNCHANGED procFrame
    /\ LET bounds == getPageBounds(documents, id, whenLocked)
       IN  procResult' =
               [op |-> "http:render", id |-> id, pageIndex |-> pageIndex,
                reached |-> /\ isDocumentReady(id)               \* part_003:216
                            /\ bounds.kind = "bounds"
                            /\ pageIndex < Len(bounds.bounds),  \* part_003:228
                out |-> None]

\* main.ts:162-188 ipcMain pdf:render, up to the call of renderPage.
IpcRender(id, pageIndex, whenLocked) ==
    /\ UNCHANGED <<documents, documentMetadata, originalBuffers>>
    /\ UNCHANGED procFrame
    /\ LET bounds == getPageBounds(documents, id, whenLocked)
       IN  procResult' =
               [op |-> "ipc:render", id |-> id, pageIndex |-> pageIndex,
                reached |-> /\ id \in DOMAIN documents           \* main.ts:164-167
                            /\ bounds.kind = "bounds"
                            /\ pageIndex < Len(bounds.bounds),  \* main.ts:170-172
                out |-> None]

\* A PDFProcessor right after construction (pdf.ts:5-7), no export running.
ProcInit ==
    /\ documents = EmptyMap
    /\ documentMetadata = EmptyMap
    /\ originalBuffers = EmptyMap
    /\ procResult = None
    /\ pages = <<>>
    /\ pdfDoc = <<>>
    /\ idx = 1
    /\ exportFn = "none"
    /\ exportPc = "idle"
    /\ exportResult = None
    /\ request = None
    /\ imgCall = None
    /\ applied = <<>>
    /\ rawIn = None
    /\ imgResult = None
    /\ renderCall = None
    /\ renderResult = None
    /\ batches = None
    /\ sessions = NoSessions
    /\ renderLog = <<>>
    /\ app = InitialApp

ProcNext ==
    \/ \E file \in Files, id \in DocIds, w \in CountOutcomes : openDocument(file, id, w)
    \/ \E id \in DocIds, pw \in Passwords : authenticatePassword(id, pw)
    \/ \E id \in DocIds, w \in CountOutcomes : getPageBoundsCall(id, w)
    \/ \E id \in DocIds, i \in 0 .. MaxOpenPages : getPageBound(id, i)
    \/ \E id \in DocIds : closeDocumentCall(id)
    \/ closeAllDocuments
    \/ \E id \in DocIds, i \in {0, MaxOpenPages} : HttpRender(id, i, "count")
    \/ \E id \in DocIds, i \in {0, MaxOpenPages}, w \in CountOutcomes : IpcRender(id, i, w)

(***************************************************************************)
(* PageRenderer and the HTTP export handler                                *)
(***************************************************************************)

RECURSIVE Pow2(_)
Pow2(e) == IF e = 0 THEN 1 ELSE 2 * Pow2(e - 1)

\* floor(log2(n / d)) for n >= d > 0.
RECURSIVE Log2Floor(_, _)
Log2Floor(n, d) == IF n < 2 * d THEN 0 ELSE 1 + Log2Floor(n, 2 * d)

\* 2^t mod 9.
Pow2Mod9(t) == <<1, 2, 4, 8, 7, 5>>[(t % 6) + 1]

\* part_006:66-68: Math.floor(pt * scale) with scale = dpi / 72, both
\* operations in binary64 as JavaScript performs them; pt in hundredths of a
\* point, dpi a whole number >= 72.
\*   scale is dpi/72 rounded to 53 bits: with es = floor(log2(dpi/72)) its
\*   last bit weighs 2^(es-52), and since 72 = 8 * 9 the rounding drops
\*   rho/9 of that bit when rho = dpi * 2^(49-es) mod 9 is at most 4 (it adds
\*   (9-rho)/9 of it otherwise).
\*   When the real product N = pt * dpi / 72 is a whole number and scale was
\*   rounded down, the double product is N - pt * (rho/9) * 2^(es-52), which
\*   rounds to the double below N when it is more than half a step
\*   (2^(eN-53), eN = floor(log2 N)) away from N: Math.floor then gives N - 1.
\*   When the real product is no whole number it is at least 1/7200 away
\*   from one, far more than the rounding error, and the floor is exact.
FloorOfScaled(pt, dpi) ==
    LET N == (pt * dpi) \div 7200
    IN  IF (pt * dpi) % 7200 # 0 \/ pt % 100 # 0 \/ N = 0 THEN N
        ELSE LET es  == Log2Floor(dpi, 72)
                 rho == (dpi * Pow2Mod9(49 - es)) % 9
                 eN  == Log2Floor(N, 1)
                 lost == (pt \div 100) * rho * Pow2(es + 1)
             IN  IF rho = 0 \/ rho > 4 THEN N
                 ELSE IF N = Pow2(eN)
                 THEN (IF 2 * lost > 9 * Pow2(eN) THEN N - 1 ELSE N)
                 ELSE (IF lost > 9 * Pow2(eN) THEN N - 1 ELSE N)

\* part_006:62-71 calculatePixelSize.
PixelSize(bounds, dpi) ==
    [width  |-> FloorOfScaled(bounds.width_pt, dpi),
     height |-> FloorOfScaled(bounds.height_pt, dpi)]

\* part_006:14-54 renderPage: the PNG of the page, or Throws when loadPage
\* fails (no such page, or an unreadable one).
RenderThrows == [throws |-> TRUE]

renderPage(doc, pageIndex, bounds, dpi) ==
    IF pageIndex >= Len(doc.file.rects) \/ doc.file.rects[pageIndex + 1] = Unreadable
    THEN RenderThrows
    ELSE MkImage("png", 4000 + pageIndex, PixelSize(bounds, dpi).width,
                 PixelSize(bounds, dpi).height)

\* part_005:12-92 processImage as the export handler sees it: a PNG of the
\* same pixel size.
Processed(img) == MkImage("png", img.length + 1, img.width_px, img.height_px)

\* part_003:488-513: the ProcessedPage list built from the requested indices;
\* ok is FALSE when a render or a processing step throws.
RECURSIVE BuildPages(_, _, _, _)
BuildPages(doc, bounds, pageIndices, req) ==
    IF pageIndices = <<>> THEN [ok |-> TRUE, pages |-> <<>>]
    ELSE LET pageIndex == Head(pageIndices)
             original  == IF pageIndex < Len(bounds)
                          THEN renderPage(doc, pageIndex, bounds[pageIndex + 1], req.dpi)
                          ELSE RenderThrows
             rest      == BuildPages(doc, bounds, Tail(pageIndices), req)
         IN  IF original = RenderThrows \/ req.processingThrows \/ ~rest.ok
             THEN [ok |-> FALSE, pages |-> <<>>]
             ELSE [ok |-> TRUE,
                   pages |-> <<[pageIndex      |-> pageIndex,
                                bounds         |-> bounds[pageIndex + 1],
                                originalImage  |-> original,
                                processedImage |-> Processed(original)]>>
                             \o rest.pages]

Dpis == {72, 150}

Requests ==
    [id : DocIds, pageIndices : SeqsUpTo(0 .. 2, MaxPages), dpi : Dpis,
     metadata : BOOLEAN, processingThrows : BOOLEAN]

\* part_003:460-523 POST /api/pdf/:id/export, up to the call of the exporter.
HttpExport ==
    /\ exportPc = "idle"
    /\ UNCHANGED exportFrame
    /\ \E req \in Requests :
       /\ request' = req
       /\ IF ~isDocumentReady(req.id)
          THEN \* part_003:475-480
               /\ exportResult' = [kind |-> "response", status |-> 404]
               /\ exportPc' = "done"
               /\ UNCHANGED <<pages, pdfDoc, idx, exportFn>>
          ELSE LET doc    == documents[req.id]
                   bounds == getPageBounds(documents, req.id, "count").bounds
                   built  == BuildPages(doc, bounds, req.pageIndices, req)
               IN  IF ~built.ok
                   THEN \* part_003:538-545
                        /\ exportResult' = [kind |-> "response", status |-> 500]
                        /\ exportPc' = "done"
                        /\ UNCHANGED <<pages, pdfDoc, idx, exportFn>>
                   ELSE /\ pages' = built.pages
                        /\ pdfDoc' = <<>>
                        /\ idx' = 1
                        /\ exportFn' = IF req.metadata THEN "exportWithMetadata"
                                       ELSE "exportProcessedPDF"
                        /\ exportPc' = "loop"
                        /\ UNCHANGED exportResult

\* export.ts:200-201: page.processedImage?.length || page.originalImage.length,
\* as the image whose length is counted; None when the length of an
\* undefined originalImage is read, which throws a TypeError.
CountedImage(page) ==
    IF Truthy(page.processedImage) /\ page.processedImage.length # 0
    THEN page.processedImage
    ELSE page.originalImage

RECURSIVE SumLengths(_)
SumLengths(images) ==
    IF images = <<>> THEN 0 ELSE Head(images).length + SumLengths(Tail(images))

\* export.ts:191-209 estimateOutputSize: the estimate in bytes and, per page,
\* the image counted.
estimateOutputSize(ps) ==
    LET counted == [k \in 1 .. Len(ps) |-> CountedImage(ps[k])]
    IN  IF \E k \in 1 .. Len(ps) : counted[k] = None
        THEN [kind |-> "error", message |-> "TypeError", page |-> -1]
        ELSE [kind    |-> "estimate",
              size    |-> ((Len(ps) * 1024 + SumLengths(counted)) * 11) \div 10,
              counted |-> counted]

\* export.ts:256-259: the warning that the original will be used.
WillUseOriginal(page) ==
    Truthy(page.processedImage) /\ page.processedImage.length = 0

\* export.ts:249-254: the errors about the original image.
OriginalImageError(page) ==
    ~Truthy(page.originalImage) \/ page.originalImage.length = 0

\* export.ts:216-268 validatePagesData. The page lists of the model have
\* whole page indices and bounds of ordinary size, so the errors are those of
\* the images; willUseOriginal lists the positions warned about.
validatePagesData(ps) ==
    LET failing == {k \in 1 .. Len(ps) : OriginalImageError(ps[k])}
    IN  [kind            |-> "validation",
         valid           |-> ps # <<>> /\ failing = {},
         errors          |-> IF ps = <<>> THEN {0} ELSE failing,
         willUseOriginal |-> {k \in 1 .. Len(ps) : WillUseOriginal(ps[k])}]

estimateOutputSizeCall ==
    /\ exportPc = "idle"
    /\ UNCHANGED exportFrame
    /\ \E ps \in SeqsUpTo(ProcessedPages, MaxPages) :
       /\ pages' = ps
       /\ exportResult' = estimateOutputSize(ps)
    /\ exportFn' = "estimateOutputSize"
    /\ exportPc' = "done"
    /\ UNCHANGED <<pdfDoc, idx, request>>

validatePagesDataCall ==
    /\ exportPc = "idle"
    /\ UNCHANGED exportFrame
    /\ \E ps \in SeqsUpTo(ProcessedPages, MaxPages) :
       /\ pages' = ps
       /\ exportResult' = validatePagesData(ps)
    /\ exportFn' = "validatePagesData"
    /\ exportPc' = "done"
    /\ UNCHANGED <<pdfDoc, idx, request>>

\* A direct call of exportWithMetadata(pages, metadata) (export.ts:275-303).
CallExportWithMetadata ==
    /\ exportPc = "idle"
    /\ \E ps \in SeqsUpTo(ProcessedPages, MaxPages) : pages' = ps
    /\ pdfDoc' = <<>>
    /\ idx' = 1
    /\ exportFn' = "exportWithMetadata"
    /\ exportPc' = "loop"
    /\ UNCHANGED <<exportResult, request>>
    /\ UNCHANGED exportFrame

\* One iteration of the page loop of exportWithMetadata (export.ts:305-319):
\* embedPng only, no check for a missing image, no retry.
ExportWithMetadataIteration ==
    /\ exportPc = "loop"
    /\ exportFn = "exportWithMetadata"
    /\ idx <= Len(pages)
    /\ UNCHANGED exportFrame
    /\ LET page == pages[idx]
           img  == ImageToEmbed(page)
       IN  IF img = None \/ ~EmbedPngOk(img)
           THEN /\ exportResult' =
                       Thrown(exportFn, [text |-> "embedPng failed", page |-> -1],
                              <<"png">>)
                /\ exportPc' = "done"
                /\ pdfDoc' = AddPage(pdfDoc, OutPage(page, None, "none", <<"png">>))
                /\ UNCHANGED <<pages, idx, exportFn, request>>
           ELSE /\ pdfDoc' = AddPage(pdfDoc, OutPage(page, img, "png", <<"png">>))
                /\ idx' = idx + 1
                /\ UNCHANGED <<pages, exportFn, exportPc, exportResult, request>>

\* The files behind the registry an export starts from.
ReadyFile  == [kind |-> "plain", rects |-> <<RectLetter, RectA4>>]
LockedFile == [kind |-> "locked", rects |-> <<RectLetter>>]

\* The registry after openDocument(ReadyFile) and openDocument(LockedFile),
\* no export running.
ExportInit ==
    /\ documents = [id \in DocIds |->
                      IF id = "pdf_a" THEN Handle(ReadyFile) ELSE Handle(LockedFile)]
    /\ documentMetadata =
          [id \in DocIds |->
              IF id = "pdf_a"
              THEN [id |-> id, pageCount |-> 2, needsPassword |-> FALSE,
                    isAuthenticated |-> TRUE,
                    pages |-> BoundsLoop(Handle(ReadyFile), 0, 2)]
              ELSE [id |-> id, pageCount |-> 0, needsPassword |-> TRUE,
                    isAuthenticated |-> FALSE, pages |-> <<>>]]
    /\ originalBuffers = [id \in DocIds |->
                            IF id = "pdf_a" THEN ReadyFile ELSE LockedFile]
    /\ procResult = None
    /\ pages = <<>>
    /\ pdfDoc = <<>>
    /\ idx = 1
    /\ exportFn = "none"
    /\ exportPc = "idle"
    /\ exportResult = None
    /\ request = None
    /\ imgCall = None
    /\ applied = <<>>
    /\ rawIn = None
    /\ imgResult = None
    /\ renderCall = None
    /\ renderResult = None
    /\ batches = None
    /\ sessions = NoSessions
    /\ renderLog = <<>>
    /\ app = InitialApp

ExportNext ==
    \/ CallExport
    \/ CallExportWithMetadata
    \/ estimateOutputSizeCall
    \/ validatePagesDataCall
    \/ HttpExport
    \/ ExportIteration
    \/ ExportWithMetadataIteration
    \/ ExportSave

(***************************************************************************)
(* PDFExporter.exportInBatches                                             *)
(***************************************************************************)

\* export.ts:11-81 exportProcessedPDF as a value: the pages of the document
\* saved, or the error thrown, for the page list ps from position i on.
RECURSIVE ExportLoop(_, _, _)
ExportLoop(ps, i, doc) ==
    IF i > Len(ps) THEN [kind |-> "bytes", doc |-> doc]
    ELSE LET page     == ps[i]
             img      == ImageToEmbed(page)
             attempts == IF img = None THEN <<>> ELSE EmbedAttempts(img)
             as       == IF img = None THEN "none" ELSE EmbeddedAs(img, attempts)
         IN  IF img = None
             THEN Thrown("exportProcessedPDF",
                         [text |-> "No image data available for page",
                          page |-> page.pageIndex], attempts)
             ELSE IF as = "none"
             THEN Thrown("exportProcessedPDF",
                         [text |-> "Failed to embed image for page",
                          page |-> EmbedErrorPage(i, page)], attempts)
             ELSE ExportLoop(ps, i + 1, AddPage(doc, OutPage(page, img, as, attempts)))

exportProcessedPDF(ps) == ExportLoop(ps, 1, <<>>)

\* Array.prototype.slice(start, end) for whole-number arguments: a negative
\* argument counts from the end of the array.
SliceIndex(k, len) ==
    IF k < 0 THEN (IF len + k < 0 THEN 0 ELSE len + k)
    ELSE IF k > len THEN len ELSE k

Slice(seq, start, end) ==
    LET from == SliceIndex(start, Len(seq))
        to   == SliceIndex(end, Len(seq))
    IN  IF from >= to THEN <<>> ELSE SubSeq(seq, from + 1, to)

\* The longest page list exported in batches.
MaxChunked == 3

\* The page lists: page k - 1 at position k, each with a PNG or with bytes
\* that are no image.
ChunkedPages ==
    UNION {{[k \in 1 .. n |->
                [pageIndex |-> k - 1, bounds |-> BoundsA4,
                 originalImage |-> imgs[k], processedImage |-> None]] :
            imgs \in [1 .. n -> {ImgPng150, ImgBad}]} : n \in 0 .. MaxChunked}

\* batchSize: 50 is the default; 0 is what getRecommendedExportSettings
\* ("email", 0) recommends (export.ts:373).
BatchSizes == {-1, 0, 1, 2, 50}

\* export.ts:114-120: the call, up to the loop.
exportInBatchesCall ==
    /\ batches = None
    /\ UNCHANGED batchFrame
    /\ \E ps \in ChunkedPages, batchSize \in BatchSizes :
       batches' = [pages |-> ps, batchSize |-> batchSize, i |-> 0, results |-> <<>>,
                   error |-> None, pc |-> "loop"]

\* export.ts:124-143: one iteration of the batch loop. The iterations of a
\* loop that does not advance are followed for one more than the number of
\* pages.
ExportBatch ==
    /\ batches # None
    /\ batches.pc = "loop"
    /\ batches.i < Len(batches.pages)
    /\ Len(batches.results) <= Len(batches.pages)
    /\ UNCHANGED batchFrame
    /\ LET batch    == Slice(batches.pages, batches.i, batches.i + batches.batchSize)
           batchPDF == exportProcessedPDF(batch)
       IN  IF batchPDF.kind = "error"
           THEN \* export.ts:139-142
                batches' = [batches EXCEPT !.pc = "threw", !.error = batchPDF]
           ELSE batches' = [batches EXCEPT !.results = Append(@, batchPDF.doc),
                                           !.i = @ + batches.batchSize]

\* export.ts:124,145-146: the loop condition fails and results is returned.
ExportBatchesReturn ==
    /\ batches # None
    /\ batches.pc = "loop"
    /\ batches.i >= Len(batches.pages)
    /\ UNCHANGED batchFrame
    /\ batches' = [batches EXCEPT !.pc = "returned"]

\* A PDFExporter before any call; nothing else is running.
BatchInit ==
    /\ batches = None
    /\ sessions = NoSessions
    /\ renderLog = <<>>
    /\ app = InitialApp
    /\ renderCall = None
    /\ renderResult = None
    /\ documents = EmptyMap
    /\ documentMetadata = EmptyMap
    /\ originalBuffers = EmptyMap
    /\ procResult = None
    /\ pages = <<>>
    /\ pdfDoc = <<>>
    /\ idx = 1
    /\ exportFn = "none"
    /\ exportPc = "idle"
    /\ exportResult = None
    /\ request = None
    /\ imgCall = None
    /\ applied = <<>>
    /\ rawIn = None
    /\ imgResult = None

BatchNext ==
    \/ exportInBatchesCall
    \/ ExportBatch
    \/ ExportBatchesReturn

\* The loop runs to its end unless it never reaches it: every await of
\* exportProcessedPDF settles.
SpecBatches == BatchInit /\ [][BatchNext]_vars /\ WF_vars(BatchNext)

(***************************************************************************)
(* POST /api/pdf/:id/export: requests in flight together                   *)
(***************************************************************************)

\* What a request asks for: a document id and the pages to export.
SessionRequests == [id : DocIds, pageIndices : {<<0>>, <<0, 1>>, <<1, 0>>}]

\* part_003:460-486: the handler from the arrival of the request to its
\* first await (getPageBounds).
SessionStart(r) ==
    /\ sessions[r].pc = "idle"
    /\ UNCHANGED <<renderLog, sessionFrame>>
    /\ \E req \in SessionRequests :
       sessions' =
           [sessions EXCEPT ![r] =
               IF ~isDocumentReady(req.id)
               THEN [pc |-> "done", id |-> req.id, pageIndices |-> req.pageIndices,
                     k |-> 0, status |-> 404]                       \* part_003:475-480
               ELSE [pc |-> "render", id |-> req.id, pageIndices |-> req.pageIndices,
                     k |-> 1, status |-> 0]]

\* part_003:490-496: pageRenderer.renderPage on the handle of the document,
\* for the page at position k; the handler then awaits.
SessionRender(r) ==
    /\ sessions[r].pc = "render"
    /\ UNCHANGED sessionFrame
    /\ LET pageIndex == sessions[r].pageIndices[sessions[r].k]
           doc       == documents[sessions[r].id]
           bounds    == getPageBounds(documents, sessions[r].id, "count").bounds
           original  == IF pageIndex < Len(bounds)
                        THEN renderPage(doc, pageIndex, bounds[pageIndex + 1], 150)
                        ELSE RenderThrows
       IN  /\ renderLog' = Append(renderLog, [session |-> r, id |-> sessions[r].id,
                                              pageIndex |-> pageIndex])
           /\ sessions' =
                  [sessions EXCEPT ![r] =
                      IF original = RenderThrows
                      THEN [@ EXCEPT !.pc = "done", !.status = 500]  \* part_003:538-545
                      ELSE [@ EXCEPT !.pc = "process"]]

\* part_003:498-512: imageProcessor.processImage settles, the page is pushed
\* and the loop goes on to the next page.
SessionProcess(r) ==
    /\ sessions[r].pc = "process"
    /\ UNCHANGED <<renderLog, sessionFrame>>
    /\ sessions' =
           [sessions EXCEPT ![r] =
               IF @.k < Len(@.pageIndices) THEN [@ EXCEPT !.k = @ + 1, !.pc = "render"]
               ELSE [@ EXCEPT !.pc = "export"]]

\* part_003:514-536: the export of the pages built and the response.
SessionRespond(r) ==
    /\ sessions[r].pc = "export"
    /\ UNCHANGED <<renderLog, sessionFrame>>
    /\ sessions' = [sessions EXCEPT ![r] = [@ EXCEPT !.pc = "done", !.status = 200]]

\* The handlers of the requests in flight run interleaved: each await hands
\* control back to the event loop, which may resume any of them.
SessionNext ==
    \E r \in SessionIds :
        \/ SessionStart(r)
        \/ SessionRender(r)
        \/ SessionProcess(r)
        \/ SessionRespond(r)

\* The registry the requests arrive at: pdf_a open and ready, pdf_b locked.
SessionInit == ExportInit

SpecSessions == SessionInit /\ [][SessionNext]_vars

(***************************************************************************)
(* PageRenderer, called on its own                                         *)
(***************************************************************************)

\* The longest page list handed to a batch.
MaxBatch == 2

\* RenderOptions; "TIFF" stands for a format the renderer does not know.
RenderDpis == {72, 110, 150, 200}
RenderOptions ==
    [dpi : RenderDpis, colorSpace : {"RGB", "Gray"}, format : {"PNG", "JPEG", "TIFF"}]

\* The document behind a PageRenderer call: page 1 cannot be loaded.
RenderFile == [kind |-> "plain", rects |-> <<RectLetter, Unreadable, RectA4>>]
RenderPageIndices == 0 .. 3

BoundsSmall == MkBounds(0, 0, 41800, 41900)
RenderBounds == {BoundsLetter, BoundsA4, BoundsSmall}

\* part_006:49-53: the Error renderPage throws; its message carries pageIndex.
RenderError(pageIndex) ==
    [kind |-> "error", message |-> "Failed to render page", page |-> pageIndex]

\* part_006:14-54 renderPage as a value: the matrix and colour space handed
\* to page.toPixmap, the pixel size logged at line 33 and the buffer returned;
\* or the error thrown.
renderPageResult(doc, pageIndex, bounds, options) ==
    IF renderPage(doc, pageIndex, bounds, options.dpi) = RenderThrows
    THEN RenderError(pageIndex)                                  \* loadPage throws
    ELSE IF options.format \notin {"PNG", "JPEG"}
    THEN RenderError(pageIndex)                                  \* part_006:45-47
    ELSE [kind       |-> "image",
          matrix     |-> [sx |-> <<options.dpi, 72>>, sy |-> <<options.dpi, 72>>],
          colorSpace |-> IF options.colorSpace = "Gray" THEN "DeviceGray"
                         ELSE "DeviceRGB",
          pixelSize  |-> PixelSize(bounds, options.dpi),
          image      |-> renderPage(doc, pageIndex, bounds, options.dpi)]

renderPageCall ==
    /\ renderCall = None
    /\ UNCHANGED renderFrame
    /\ \E pageIndex \in RenderPageIndices, bounds \in RenderBounds,
          options \in RenderOptions :
       /\ renderCall' = [op |-> "renderPage", pageIndex |-> pageIndex,
                         bounds |-> bounds, options |-> options]
       /\ renderResult' = renderPageResult(Handle(RenderFile), pageIndex, bounds, options)

\* part_006:62-71 calculatePixelSize, called on its own.
calculatePixelSize ==
    /\ renderCall = None
    /\ UNCHANGED renderFrame
    /\ \E bounds \in RenderBounds, dpi \in RenderDpis :
       /\ renderCall' = [op |-> "calculatePixelSize", bounds |-> bounds, dpi |-> dpi]
       /\ renderResult' = [kind |-> "size", size |-> PixelSize(bounds, dpi)]

\* part_006:91-108: the loop of renderPageBatch from position i (1-based) on:
\* the results pushed so far, or the error rethrown at line 106.
RECURSIVE RenderBatchLoop(_, _, _, _, _)
RenderBatchLoop(doc, batch, options, i, results) ==
    IF i > Len(batch) THEN [kind |-> "results", results |-> results]
    ELSE LET r == renderPageResult(doc, batch[i].index, batch[i].bounds, options)
         IN  IF r.kind = "error" THEN r
             ELSE RenderBatchLoop(doc, batch, options, i + 1, Append(results, r.image))

BatchPages == [index : 0 .. 2, bounds : {BoundsLetter}]

\* part_006:81-112 renderPageBatch.
renderPageBatch ==
    /\ renderCall = None
    /\ UNCHANGED renderFrame
    /\ \E batch \in SeqsUpTo(BatchPages, MaxBatch), options \in RenderOptions :
       /\ renderCall' = [op |-> "renderPageBatch", pages |-> batch, options |-> options]
       /\ renderResult' = RenderBatchLoop(Handle(RenderFile), batch, options, 1, <<>>)

RECURSIVE GCD(_, _)
GCD(a, b) == IF b = 0 THEN a ELSE GCD(b, a % b)

\* A non-negative fraction n/d in lowest terms (JavaScript numbers that are
\* quotients of whole numbers).
Q(n, d) == [n |-> n \div GCD(n, d), d |-> d \div GCD(n, d)]
QLeq(a, b) == a.n * b.d <= b.n * a.d
QMin(a, b) == IF QLeq(a, b) THEN a ELSE b
QMax(a, b) == IF QLeq(a, b) THEN b ELSE a

\* part_006:132-134: Math.min(maxWidth / width_pt, maxHeight / height_pt, 2.0).
\* A quotient by a zero width or height is Infinity and never the minimum.
PreviewScaleWidthOnly(bounds, maxWidth, maxHeight) ==
    IF bounds.width_pt > 0 THEN QMin(Q(100 * maxWidth, bounds.width_pt), Q(2, 1))
    ELSE Q(2, 1)

PreviewScale(bounds, maxWidth, maxHeight) ==
    LET byWidth  == IF bounds.width_pt > 0 THEN Q(100 * maxWidth, bounds.width_pt)
                    ELSE Q(2, 1)
        byHeight == IF bounds.height_pt > 0 THEN Q(100 * maxHeight, bounds.height_pt)
                    ELSE Q(2, 1)
    IN  QMin(QMin(byWidth, byHeight), Q(2, 1))

\* part_006:135: Math.max(72 * scale, 72).
PreviewDPI(bounds, maxWidth, maxHeight) ==
    LET scale == PreviewScale(bounds, maxWidth, maxHeight)
    IN  QMax(Q(72 * scale.n, scale.d), Q(72, 1))

\* part_006:24,33: Math.floor(pt * (dpi / 72)) for a dpi that may be a
\* fraction. For a whole dpi it is FloorOfScaled; otherwise the floor of the
\* real product, except that when the real product is a whole number N the
\* double product may fall just under it, giving N - 1.
FloorsOfScaled(pt, dpi) ==
    IF dpi.d = 1 THEN {FloorOfScaled(pt, dpi.n)}
    ELSE LET scale == Q(dpi.n, 7200 * dpi.d)     \* per hundredth of a point
             num   == pt * scale.n
             den   == scale.d
         IN  IF num % den = 0 /\ num > 0 THEN {num \div den, (num \div den) - 1}
             ELSE {num \div den}

BoundsNoWidth == MkBounds(0, 0, 0, 84189)
PreviewBounds == {BoundsLetter, BoundsA4, BoundsSmall, BoundsNoWidth}
PreviewBoxes ==
    {[maxWidth |-> 400, maxHeight |-> 600], [maxWidth |-> 800, maxHeight |-> 1200],
     [maxWidth |-> 612, maxHeight |-> 792], [maxWidth |-> 2000, maxHeight |-> 2000],
     [maxWidth |-> 1200, maxHeight |-> 800]}

\* part_006:123-151 renderPagePreview: renderPage at previewDPI, RGB, PNG.
renderPagePreview ==
    /\ renderCall = None
    /\ UNCHANGED renderFrame
    /\ \E pageIndex \in RenderPageIndices, bounds \in PreviewBounds, box \in PreviewBoxes :
       LET dpi == PreviewDPI(bounds, box.maxWidth, box.maxHeight)
           doc == Handle(RenderFile)
       IN  /\ renderCall' = [op |-> "renderPagePreview", pageIndex |-> pageIndex,
                             bounds |-> bounds, maxWidth |-> box.maxWidth,
                             maxHeight |-> box.maxHeight]
           /\ IF renderPage(doc, pageIndex, bounds, 72) = RenderThrows
              THEN \* part_006:146-150
                   renderResult' = [kind |-> "error",
                                    message |-> "Failed to render preview",
                                    page |-> pageIndex]
              ELSE \E w \in FloorsOfScaled(bounds.width_pt, dpi),
                      h \in FloorsOfScaled(bounds.height_pt, dpi) :
                   renderResult' =
                       [kind       |-> "image",
                        dpi        |-> dpi,
                        matrix     |-> [sx |-> <<dpi, 72>>, sy |-> <<dpi, 72>>],
                        colorSpace |-> "DeviceRGB",
                        pixelSize  |-> [width |-> w, height |-> h],
                        image      |-> MkImage("png", 4000 + pageIndex, w, h)]

\* An estimate that leaves the height out of the pixel count.
estimateMemoryUsageWidthOnly(bounds, options) ==
    LET pixelSize     == PixelSize(bounds, options.dpi)
        channels      == IF options.colorSpace = "Gray" THEN 1 ELSE 3
        bytesPerPixel == channels + 1
        pixelDataSize == pixelSize.width * bytesPerPixel
    IN  (pixelDataSize * 3) \div 2

\* part_006:159-168 estimateMemoryUsage, in bytes. pixelDataSize * 1.5 is
\* exact in binary64 for these sizes.
estimateMemoryUsage(bounds, options) ==
    LET pixelSize     == PixelSize(bounds, options.dpi)
        channels      == IF options.colorSpace = "Gray" THEN 1 ELSE 3
        bytesPerPixel == channels + 1
        pixelDataSize == pixelSize.width * pixelSize.height * bytesPerPixel
    IN  (pixelDataSize * 3) \div 2

\* part_006:182-184: the reduce over the page list.
RECURSIVE TotalMemory(_, _)
TotalMemory(bounds, options) ==
    IF bounds = <<>> THEN 0
    ELSE estimateMemoryUsage(Head(bounds), options) + TotalMemory(Tail(bounds), options)

\* part_006:186: 1024 * 1024.
BytesPerMB == 1048576

\* part_006:203: Math.round(estimatedMemoryMB * 100) / 100, in hundredths of
\* a megabyte.
RoundedMB(totalMemory) ==
    (totalMemory \div BytesPerMB) * 100
    + ((totalMemory % BytesPerMB) * 200 + BytesPerMB) \div (2 * BytesPerMB)

\* part_006:187: feasible = estimatedMemoryMB <= maxMemoryMB, on the local
\* estimatedMemoryMB of line 186 (totalMemory / (1024 * 1024), exact in
\* binary64); FeasibleRounded compares the rounded value that is returned.
FeasibleRounded(totalMemory, maxMemoryMB) == RoundedMB(totalMemory) <= maxMemoryMB * 100

Feasible(totalMemory, maxMemoryMB) == totalMemory <= maxMemoryMB * BytesPerMB

Suggest(cond, text) == IF cond THEN <<text>> ELSE <<>>

\* part_006:189-200: the suggestions, in the order the code pushes them.
Suggestions(bounds, options, feasible) ==
    IF feasible THEN <<>>
    ELSE Suggest(options.dpi > 150, "reduce DPI")
         \o Suggest(Len(bounds) > 50, "batch")
         \o Suggest(options.colorSpace = "RGB", "grayscale")

\* part_006:177-207 checkRenderFeasibility: the object returned.
\* estimatedMemoryMB is in hundredths of a megabyte; totalMemory is the local
\* of line 182, kept for reference.
checkRenderFeasibilityResult(bounds, options, maxMemoryMB) ==
    LET totalMemory == TotalMemory(bounds, options)
        feasible    == Feasible(totalMemory, maxMemoryMB)
        suggestions == Suggestions(bounds, options, feasible)
    IN  [kind              |-> "feasibility",
         feasible          |-> feasible,
         estimatedMemoryMB |-> RoundedMB(totalMemory),
         suggestions       |-> IF Len(suggestions) > 0 THEN [list |-> suggestions]
                               ELSE None,                         \* part_006:204
         totalMemory       |-> totalMemory]

RECURSIVE Copies(_, _)
Copies(x, n) == IF n = 0 THEN <<>> ELSE <<x>> \o Copies(x, n - 1)

\* The page lists checked for feasibility: short lists of every mix, and a
\* document of 51 small pages.
FeasibilityPages ==
    SeqsUpTo(RenderBounds, MaxBatch) \cup {Copies(BoundsSmall, 51)}

\* maxMemoryMB: 500 is the default.
Budgets == {1, 40, 500}

checkRenderFeasibility ==
    /\ renderCall = None
    /\ UNCHANGED renderFrame
    /\ \E bounds \in FeasibilityPages, dpi \in RenderDpis,
          colorSpace \in {"RGB", "Gray"}, maxMemoryMB \in Budgets :
       LET options == [dpi |-> dpi, colorSpace |-> colorSpace, format |-> "PNG"]
       IN  /\ renderCall' = [op |-> "checkRenderFeasibility", bounds |-> bounds,
                             options |-> options, maxMemoryMB |-> maxMemoryMB]
           /\ renderResult' = checkRenderFeasibilityResult(bounds, options, maxMemoryMB)

\* A PageRenderer before any call; nothing else is running.
RenderInit ==
    /\ renderCall = None
    /\ renderResult = None
    /\ batches = None
    /\ sessions = NoSessions
    /\ renderLog = <<>>
    /\ app = InitialApp
    /\ documents = EmptyMap
    /\ documentMetadata = EmptyMap
    /\ originalBuffers = EmptyMap
    /\ procResult = None
    /\ pages = <<>>
    /\ pdfDoc = <<>>
    /\ idx = 1
    /\ exportFn = "none"
    /\ exportPc = "idle"
    /\ exportResult = None
    /\ request = None
    /\ imgCall = None
    /\ applied = <<>>
    /\ rawIn = None
    /\ imgResult = None

RenderNext ==
    \/ renderPageCall
    \/ calculatePixelSize
    \/ renderPageBatch
    \/ renderPagePreview
    \/ checkRenderFeasibility

SpecRenderer == RenderInit /\ [][RenderNext]_vars

(***************************************************************************)
(* ImageProcessor                                                          *)
(***************************************************************************)

\* A raw pixel buffer as sharp decodes it: interleaved samples, `channels`
\* per pixel (1 gray, 2 gray+alpha, 3 RGB, 4 RGBA).
Raw(channels, data) == [channels |-> channels, data |-> data]

\* A PNG: lossless, so it is the raw buffer it decodes to.
Png(raw) == [format |-> "png", raw |-> raw]

Samples == {224, 244}

\* The longest raw buffer, in samples.
MaxSamples == 8

RECURSIVE SeqsOfLen(_, _)
SeqsOfLen(S, n) ==
    IF n = 0 THEN {<<>>}
    ELSE {Append(s, x) : s \in SeqsOfLen(S, n - 1), x \in S}

RawBuffers ==
    UNION {{Raw(cn[1], d) : d \in SeqsOfLen(Samples, cn[1] * cn[2])} :
           cn \in {x \in (1 .. 4) \X (1 .. MaxSamples) : x[1] * x[2] <= MaxSamples}}

\* ProcessingParams; gamma, contrast and sharpen.sigma in tenths.
ColorReplaceOff ==
    [enabled |-> FALSE, targetColor |-> <<224, 224, 224>>,
     replaceColor |-> <<255, 255, 255>>, tolerance |-> 10]
ColorReplaceOn == [ColorReplaceOff EXCEPT !.enabled = TRUE]

Params ==
    [gamma : {10, 22}, grayscale : BOOLEAN, contrast : {10, 15},
     brightness : {0, 20}, denoise : BOOLEAN,
     sharpen : [sigma : {0, 15}, flat : {10}, jagged : {20}],
     threshold : {0, 128}, colorReplace : {ColorReplaceOff, ColorReplaceOn}]

\* part_005:29-79: the condition under which each stage is applied.
ThresholdConditionGeq(params) == params.threshold >= 0

GammaCondition(params)        == params.gamma # 10
GrayscaleCondition(params)    == params.grayscale
LinearCondition(params)       == params.contrast # 10 \/ params.brightness # 0
DenoiseCondition(params)      == params.denoise
SharpenCondition(params)      == params.sharpen.sigma > 0
ThresholdCondition(params)    == params.threshold > 0
ColorReplaceCondition(params) == params.colorReplace.enabled

When(cond, stage) == IF cond THEN <<stage>> ELSE <<>>

\* part_005:29-79: the stages processImage applies, in the order of the code.
StagesThresholdFirst(params) ==
    When(ThresholdCondition(params), "threshold")
    \o When(GammaCondition(params), "gamma")
    \o When(GrayscaleCondition(params), "grayscale")
    \o When(LinearCondition(params), "linear")
    \o When(DenoiseCondition(params), "denoise")
    \o When(SharpenCondition(params), "sharpen")
    \o When(ColorReplaceCondition(params), "colorReplace")

Stages(params) ==
    When(GammaCondition(params), "gamma")
    \o When(GrayscaleCondition(params), "grayscale")
    \o When(LinearCondition(params), "linear")
    \o When(DenoiseCondition(params), "denoise")
    \o When(SharpenCondition(params), "sharpen")
    \o When(ThresholdCondition(params), "threshold")
    \o When(ColorReplaceCondition(params), "colorReplace")

\* The stages queued on the sharp pipeline (all but color substitution).
CodecStages(stages) == SelectSeq(stages, LAMBDA st : st # "colorReplace")

\* The channel count of the pipeline's PNG: the grayscale stage leaves one
\* colour channel, an alpha channel is kept.
ChannelsAfter(stages, channels) ==
    IF \E k \in 1 .. Len(stages) : stages[k] = "grayscale"
    THEN (IF channels \in {2, 4} THEN 2 ELSE 1)
    ELSE channels

\* data[i] of a Buffer, i 0-based: undefined past the end.
Undefined == -1
At(data, i) == IF i < Len(data) THEN data[i + 1] ELSE Undefined

\* data[i] = v on a Buffer: a write past the end is dropped, the value is
\* stored modulo 256.
Store(data, i, v) ==
    IF i < Len(data) THEN [data EXCEPT ![i + 1] = v % 256] ELSE data

\* part_005:453-457: Math.abs(pixel - target) <= tolerance; NaN compares false.
WithinStrict(sample, target, tolerance) ==
    /\ sample # Undefined
    /\ (IF sample >= target THEN sample - target ELSE target - sample) < tolerance

Within(sample, target, tolerance) ==
    /\ sample # Undefined
    /\ (IF sample >= target THEN sample - target ELSE target - sample) <= tolerance

\* part_005:448-450, 459-461: the offsets the iteration at offset i reads, and
\* writes when the pixel matches.
Touched(i) == {i, i + 1, i + 2}

\* part_005:447-465: the loop of replaceColor from offset i on.
RECURSIVE ReplaceLoop(_, _, _, _, _, _)
ReplaceLoop(data, i, channels, targetColor, replacement, tolerance) ==
    IF i >= Len(data) THEN data
    ELSE LET pixelR == At(data, i)
             pixelG == At(data, i + 1)
             pixelB == At(data, i + 2)
             hit    == /\ Within(pixelR, targetColor[1], tolerance)
                       /\ Within(pixelG, targetColor[2], tolerance)
                       /\ Within(pixelB, targetColor[3], tolerance)
             data1  == IF hit
                       THEN Store(Store(Store(data, i, replacement[1]),
                                        i + 1, replacement[2]),
                                  i + 2, replacement[3])
                       ELSE data
         IN  ReplaceLoop(data1, i + channels, channels, targetColor, replacement,
                         tolerance)

\* part_005:424-480 replaceColor on a decoded buffer: the PNG of the result.
replaceColor(raw, targetColor, replacement, tolerance) ==
    Png(Raw(raw.channels,
            ReplaceLoop(raw.data, 0, raw.channels, targetColor, replacement,
                        tolerance)))

\* The Error thrown by processImage: its message, and the stage the message
\* names ("none" when it names no stage).
ImageError(text, stage) == [format |-> "error", message |-> text, stage |-> stage]

\* Where the codec can fail in a processImage call: on the input itself, in a
\* stage queued on the pipeline, or inside replaceColor.
FailurePoints(stages) == {"input"} \cup {stages[k] : k \in 1 .. Len(stages)}

\* part_005:87-91, 482-486: the text of the error processImage throws.
\* replaceColor wraps what it catches in "Failed to replace color: "; the
\* catch block of processImage prepends "Failed to process image: " to the
\* message it caught and adds nothing else.
ErrorText(failedStage) ==
    IF failedStage = "colorReplace"
    THEN "Failed to process image: Failed to replace color: codec message"
    ELSE "Failed to process image: codec message"

\* The stage the thrown error names: color substitution through the text of
\* replaceColor; any other stage only if the codec's own message names it.
StageNamed(failedStage, codecNames) ==
    IF failedStage = "colorReplace" THEN "colorReplace"
    ELSE IF codecNames /\ failedStage # "input" THEN failedStage
    ELSE "none"

\* The images handed to processImage: two RGB pixels, two RGBA pixels, three
\* gray pixels, two gray+alpha pixels.
ProcImages ==
    {Png(Raw(3, <<224, 224, 224, 224, 224, 244>>)),
     Png(Raw(4, <<224, 224, 224, 244, 224, 224, 244, 224>>)),
     Png(Raw(1, <<224, 224, 224>>)),
     Png(Raw(2, <<224, 244, 224, 224>>))}

\* The raw buffers the codec can hand back after running `stages` on `raw`:
\* the input itself when no stage ran, else any samples of the resulting shape.
DecodedAfter(stages, raw) ==
    IF stages = <<>> THEN {raw}
    ELSE LET c == ChannelsAfter(stages, raw.channels)
             n == Len(raw.data) \div raw.channels
         IN  {Raw(c, d) : d \in SeqsOfLen(Samples, c * n)}

\* part_005:12-92 processImage as a value: what the call returns or throws
\* when the codec fails at failedStage ("none": it does not fail) and the
\* pipeline's PNG decodes to `decoded`.
processImageResult(image, params, failedStage, codecNames, decoded) ==
    IF failedStage # "none"
    THEN \* part_005:87-91
         ImageError(ErrorText(failedStage), StageNamed(failedStage, codecNames))
    ELSE IF ColorReplaceCondition(params)
    THEN \* part_005:69-79
         replaceColor(decoded, params.colorReplace.targetColor,
                      params.colorReplace.replaceColor, params.colorReplace.tolerance)
    ELSE \* part_005:82-85
         Png(decoded)

\* part_005:12-92 processImage. codecFails: a sharp operation throws.
processImage ==
    /\ imgCall = None
    /\ UNCHANGED imageFrame
    /\ \E image \in ProcImages, params \in Params, codecFails \in BOOLEAN :
       LET stages == Stages(params)
       IN  \E failedStage \in IF codecFails THEN FailurePoints(stages) ELSE {"none"},
              codecNames \in IF codecFails THEN BOOLEAN ELSE {FALSE},
              decoded \in IF codecFails THEN {image.raw}
                          ELSE DecodedAfter(CodecStages(stages), image.raw) :
           /\ imgCall' = [op |-> "processImage", image |-> image, params |-> params,
                          codecFails |-> codecFails, failedStage |-> failedStage,
                          codecNames |-> codecNames]
           /\ applied' = IF codecFails THEN CodecStages(stages) ELSE stages
           /\ rawIn' = IF ~codecFails /\ ColorReplaceCondition(params) THEN decoded
                        ELSE None
           /\ imgResult' = processImageResult(image, params, failedStage, codecNames,
                                              decoded)

\* The parameters handed to a batch: those that queue no stage on the
\* pipeline, so that what each image decodes to is the image itself.
BatchParams == {params \in Params : CodecStages(Stages(params)) = <<>>}

\* part_005:110-126: the loop of batchProcess from position i (1-based) on;
\* the processImage call of position failAt fails at failedStage. The result
\* is the results array, or the error of processImage rethrown at line 124.
RECURSIVE BatchLoop(_, _, _, _, _, _)
BatchLoop(images, params, i, results, failAt, failedStage) ==
    IF i > Len(images) THEN [format |-> "batch", results |-> results]
    ELSE LET processed ==
                 processImageResult(images[i], params,
                                    IF i = failAt THEN failedStage ELSE "none",
                                    FALSE, images[i].raw)
         IN  IF processed.format = "error" THEN processed
             ELSE BatchLoop(images, params, i + 1, Append(results, processed),
                            failAt, failedStage)

\* part_005:101-129 batchProcess.
batchProcess ==
    /\ imgCall = None
    /\ UNCHANGED imageFrame
    /\ \E images \in SeqsUpTo(ProcImages, MaxBatch), params \in BatchParams,
          failAt \in 0 .. MaxBatch :
       /\ failAt <= Len(images)
       /\ \E failedStage \in IF failAt = 0 THEN {"none"}
                              ELSE FailurePoints(Stages(params)) :
          /\ imgCall' = [op |-> "batchProcess", images |-> images, params |-> params,
                         failAt |-> failAt, failedStage |-> failedStage]
          /\ applied' = <<>>
          /\ rawIn' = None
          /\ imgResult' = BatchLoop(images, params, 1, <<>>, failAt, failedStage)

\* part_002:383-389: needsProcessing, the test of the Electron export path.
needsProcessing(params) ==
    \/ params.grayscale
    \/ params.contrast # 10
    \/ params.brightness # 0
    \/ params.threshold > 0
    \/ params.sharpen.sigma > 0
    \/ params.denoise
    \/ params.gamma # 10

\* part_002:374-401 with main.ts:204-224: one page of APIClient.exportPDF in
\* Electron. The page is rendered, processed when needsProcessing holds, and
\* exported by exportProcessedPDF, which embeds the processed image when
\* there is one.
electronExportPage ==
    /\ imgCall = None
    /\ UNCHANGED imageFrame
    /\ \E params \in Params :
       LET image  == Png(Raw(3, <<224, 224, 224, 224, 224, 244>>))
           stages == IF needsProcessing(params) THEN Stages(params) ELSE <<>>
       IN  \E decoded \in DecodedAfter(CodecStages(stages), image.raw) :
           LET processedImage ==
                   IF needsProcessing(params)
                   THEN processImageResult(image, params, "none", FALSE, decoded)
                   ELSE None                                       \* part_002:382
           IN  /\ imgCall' = [op |-> "exportPDF", image |-> image, params |-> params]
               /\ applied' = stages
               /\ rawIn' = IF needsProcessing(params) /\ ColorReplaceCondition(params)
                            THEN decoded ELSE None
               /\ imgResult' =
                      [format         |-> "page",
                       originalImage  |-> image,
                       processedImage |-> processedImage,
                       exported       |-> IF Truthy(processedImage) THEN processedImage
                                          ELSE image]               \* export.ts:27

Tolerances == {0, 10, 20}
ReplaceColors == {<<255, 255, 255>>, <<1, 2, 3>>}

\* part_005:424-487 replaceColor called on its own.
replaceColorCall ==
    /\ imgCall = None
    /\ UNCHANGED imageFrame
    /\ \E raw \in RawBuffers, replacement \in ReplaceColors, tolerance \in Tolerances :
       /\ imgCall' = [op |-> "replaceColor", image |-> Png(raw),
                      targetColor |-> <<224, 224, 224>>,
                      replaceColor |-> replacement, tolerance |-> tolerance]
       /\ applied' = <<>>
       /\ rawIn' = raw
       /\ imgResult' = replaceColor(raw, <<224, 224, 224>>, replacement, tolerance)

\* part_005:364-366: Math.max(lo, Math.min(hi, v)).
Clamp(lo, hi, v) == IF v < lo THEN lo ELSE IF v > hi THEN hi ELSE v

\* part_005:364: v < lo || v > hi.
OutOfRange(lo, hi, v) == v < lo \/ v > hi

\* part_005:393-400: Math.max(0, Math.min(255, Math.floor(value))) on each
\* component. Colour components handed to validation are in tenths (2245 is
\* 224.5), so that Math.floor has something to do.
FloorClampColor(color) == [k \in 1 .. 3 |-> 10 * Clamp(0, 255, color[k] \div 10)]

WarnIf(cond, field) == IF cond THEN <<field>> ELSE <<>>

\* The parameters handed to validateAndCorrectParams: in range, on a bound and
\* out of range; contrast, gamma and sharpen.sigma in tenths.
ValParams ==
    [gamma : {10, 35}, grayscale : BOOLEAN, contrast : {0, 1, 10, 30, 50},
     brightness : {-150, 0, 100}, denoise : {FALSE},
     sharpen : [sigma : {-5, 15, 120}, flat : {10}, jagged : {20}],
     threshold : {-1, 128, 300},
     colorReplace : [enabled : BOOLEAN,
                     targetColor : {<<2240, 2240, 2240>>, <<2245, 3000, -10>>},
                     replaceColor : {<<2550, 2550, 2550>>, <<2559, 0, 0>>},
                     tolerance : {-1, 10, 50, 80}]]

\* part_005:355-414 validateAndCorrectParams: the object returned, and
\* `params`, the argument as the call leaves it (the copy of line 361 is
\* shallow: sharpen and colorReplace are shared with the argument).
validateAndCorrectParams(params) ==
    LET cr  == params.colorReplace
        cr1 == IF cr.enabled                                  \* part_005:391
               THEN [cr EXCEPT !.targetColor = FloorClampColor(cr.targetColor),
                               !.replaceColor = FloorClampColor(cr.replaceColor),
                               !.tolerance = Clamp(0, 50, cr.tolerance)]
               ELSE cr
        sharpen1 == [params.sharpen EXCEPT !.sigma = Clamp(0, 100, params.sharpen.sigma)]
        warnings ==
            WarnIf(OutOfRange(1, 30, params.contrast), "contrast")
            \o WarnIf(OutOfRange(-100, 100, params.brightness), "brightness")
            \o WarnIf(OutOfRange(0, 255, params.threshold), "threshold")
            \o WarnIf(OutOfRange(1, 30, params.gamma), "gamma")
            \o WarnIf(OutOfRange(0, 100, params.sharpen.sigma), "sharpen.sigma")
            \o WarnIf(cr.enabled /\ OutOfRange(0, 50, cr.tolerance), "colorReplace.tolerance")
    IN  [valid |-> warnings = <<>>,
         warnings |-> warnings,
         correctedParams |->
             [params EXCEPT !.contrast = Clamp(1, 30, params.contrast),
                            !.brightness = Clamp(-100, 100, params.brightness),
                            !.threshold = Clamp(0, 255, params.threshold),
                            !.gamma = Clamp(1, 30, params.gamma),
                            !.sharpen = sharpen1,
                            !.colorReplace = cr1],
         params |-> [params EXCEPT !.sharpen = sharpen1, !.colorReplace = cr1]]

validateAndCorrectParamsCall ==
    /\ imgCall = None
    /\ UNCHANGED imageFrame
    /\ \E params \in ValParams :
       /\ imgCall' = [op |-> "validateAndCorrectParams", params |-> params]
       /\ applied' = <<>>
       /\ rawIn' = None
       /\ imgResult' = validateAndCorrectParams(params)

\* An ImageProcessor before any call; no document open, no export running.
ImageInit ==
    /\ imgCall = None
    /\ applied = <<>>
    /\ rawIn = None
    /\ imgResult = None
    /\ renderCall = None
    /\ renderResult = None
    /\ batches = None
    /\ sessions = NoSessions
    /\ renderLog = <<>>
    /\ app = InitialApp
    /\ documents = EmptyMap
    /\ documentMetadata = EmptyMap
    /\ originalBuffers = EmptyMap
    /\ procResult = None
    /\ pages = <<>>
    /\ pdfDoc = <<>>
    /\ idx = 1
    /\ exportFn = "none"
    /\ exportPc = "idle"
    /\ exportResult = None
    /\ request = None

ImageNext ==
    \/ processImage
    \/ replaceColorCall
    \/ validateAndCorrectParamsCall
    \/ batchProcess
    \/ electronExportPage

SpecImage == ImageInit /\ [][ImageNext]_vars

SpecProcessor == ProcInit /\ [][ProcNext]_vars

SpecExport == ExportInit /\ [][ExportNext]_vars

(***************************************************************************)
(* Properties                                                              *)
(***************************************************************************)

ExportReturned ==
    /\ exportPc = "done"
    /\ exportResult # None
    /\ exportResult.kind = "bytes"

ExportThrew ==
    /\ exportPc = "done"
    /\ exportResult # None
    /\ exportResult.kind = "error"

\* C1: a successful exportProcessedPDF returns a document with exactly one
\* page per input page, and page k has exactly the width and height of
\* bounds.width_pt and bounds.height_pt of input page k, whatever the pixel
\* size of the embedded image and the DPI it was rendered at.
C1_PageSizesFromBounds ==
    (ExportReturned /\ exportFn = "exportProcessedPDF") =>
        /\ Len(exportResult.doc) = Len(pages)
        /\ \A k \in 1 .. Len(pages) :
              /\ exportResult.doc[k].width = pages[k].bounds.width_pt
              /\ exportResult.doc[k].height = pages[k].bounds.height_pt

\* Two pages of different sizes were exported, and the first page's size is
\* not what the pixel size of its image would give at any scale of 1/100 pt.
C1_Witness ==
    /\ ExportReturned
    /\ exportFn = "exportProcessedPDF"
    /\ Len(pages) = 2
    /\ pages[1].bounds # pages[2].bounds
    /\ exportResult.doc[1].image.width_px * 100 # exportResult.doc[1].width
    /\ exportResult.doc[1].width = 59528

\* The first page of the running export that cannot be added: it has no
\* image or its image embeds neither as PNG nor as JPEG. 0 when there is none.
FirstStuckPage ==
    LET stuck == {k \in 1 .. Len(pages) :
                     \/ (pages[k].processedImage = None /\ pages[k].originalImage = None)
                     \/ (IF pages[k].processedImage # None THEN pages[k].processedImage
                         ELSE pages[k].originalImage).format \notin {"png", "jpeg"}}
    IN  IF stuck = {} THEN 0 ELSE CHOOSE k \in stuck : \A j \in stuck : k <= j

ImageOfPage(k) ==
    IF pages[k].processedImage # None THEN pages[k].processedImage
    ELSE pages[k].originalImage

\* C2: exportProcessedPDF tries PNG first and JPEG only after PNG failed; when
\* both fail for a page the export throws an error naming that page's
\* pageIndex and returns no bytes, also when earlier pages embedded.
C2_PngThenJpegElseAbort ==
    (exportFn = "exportProcessedPDF") =>
        /\ \A k \in 1 .. Len(pdfDoc) :
              pdfDoc[k].image # None =>
                  /\ pdfDoc[k].attempts[1] = "png"
                  /\ (pdfDoc[k].image.format = "png" => pdfDoc[k].attempts = <<"png">>)
                  /\ (pdfDoc[k].image.format = "jpeg" =>
                         pdfDoc[k].attempts = <<"png", "jpeg">>)
                  /\ pdfDoc[k].as = pdfDoc[k].image.format
        /\ (exportPc = "done" /\ FirstStuckPage # 0 /\ ImageOfPage(FirstStuckPage) # None) =>
              /\ exportResult.kind = "error"
              /\ exportResult.attempts = <<"png", "jpeg">>
              /\ exportResult.page = pages[FirstStuckPage].pageIndex
              /\ exportResult.message
                    = "Failed to export PDF: Failed to embed image for page"
        /\ (exportPc = "done" /\ FirstStuckPage # 0) => exportResult.kind # "bytes"

\* The second page failed both attempts after the first page had embedded as
\* JPEG; the page named is not the loop position.
C2_Witness ==
    /\ ExportThrew
    /\ exportFn = "exportProcessedPDF"
    /\ FirstStuckPage = 2
    /\ ImageOfPage(2) # None
    /\ pdfDoc[1].as = "jpeg"
    /\ exportResult.page = 0

StrictlyAscending(seq) == \A k \in 1 .. Len(seq) - 1 : seq[k] < seq[k + 1]

Sources(doc) == [k \in 1 .. Len(doc) |-> doc[k].source]

\* C3 as claimed: the pages of an exported PDF are in strictly ascending
\* pageIndex order for every requested list of page indices.
C3_AscendingForEveryRequest ==
    (ExportReturned /\ request # None) => StrictlyAscending(Sources(exportResult.doc))

\* C3 amended: the pages of an exported PDF are in the order of the requested
\* list (output page k is made from the k-th requested index), so they are in
\* strictly ascending pageIndex order whenever the requested list is.
C3_RequestOrderKept ==
    ExportReturned =>
        /\ Sources(exportResult.doc) = [k \in 1 .. Len(pages) |-> pages[k].pageIndex]
        /\ request # None =>
              /\ Sources(exportResult.doc) = request.pageIndices
              /\ StrictlyAscending(request.pageIndices) =>
                    StrictlyAscending(Sources(exportResult.doc))

\* A request for pages 1 then 0 was exported, in that order.
C3_Witness ==
    /\ ExportReturned
    /\ request # None
    /\ request.pageIndices = <<1, 0>>
    /\ Sources(exportResult.doc) = <<1, 0>>

\* C4: every exported page carries one image: the page's processedImage when
\* there is one, its originalImage otherwise.
C4_ProcessedElseOriginal ==
    \A k \in 1 .. Len(pdfDoc) :
        pdfDoc[k].image # None =>
            /\ pages[k].processedImage # None => pdfDoc[k].image = pages[k].processedImage
            /\ pages[k].processedImage = None => pdfDoc[k].image = pages[k].originalImage

\* An export whose first page used its processed image (different from its
\* original one) and whose second page, having none, used the original.
C4_Witness ==
    /\ ExportReturned
    /\ Len(pages) = 2
    /\ pages[1].processedImage # None
    /\ pages[1].originalImage # None
    /\ pages[1].processedImage # pages[1].originalImage
    /\ pdfDoc[1].image = pages[1].processedImage
    /\ pages[2].processedImage = None
    /\ pdfDoc[2].image = pages[2].originalImage

A4 == [x0 |-> 0, y0 |-> 0, x1 |-> 59528, y1 |-> 84189,
       width_pt |-> 59528, height_pt |-> 84189]

OwnBounds(r) == [x0 |-> r.x0, y0 |-> r.y0, x1 |-> r.x1, y1 |-> r.y1,
                 width_pt |-> r.x1 - r.x0, height_pt |-> r.y1 - r.y0]

\* C5: getPageBounds returns one entry per page in page order, page i's own
\* bounds or the A4 fallback when page i cannot be read; it fails only for an
\* unknown document or an unreadable page count.
C5_OneEntryPerPage ==
    (procResult # None /\ procResult.op = "getPageBounds") =>
        LET id  == procResult.id
            out == procResult.out
        IN  /\ id \notin DOMAIN documents => out = Error("Document not found")
            /\ id \in DOMAIN documents =>
                  LET rects == documents[id].file.rects
                  IN  /\ out.kind = "bounds" =>
                            /\ Len(out.bounds) = Len(rects)
                            /\ \A i \in 1 .. Len(rects) :
                                  out.bounds[i] = IF rects[i] = Unreadable THEN A4
                                                  ELSE OwnBounds(rects[i])
                      /\ out.kind = "error" =>
                            \/ documents[id].file.kind = "corrupt"
                            \/ needsPassword(documents[id])
                      /\ (documents[id].file.kind # "corrupt"
                          /\ ~needsPassword(documents[id])) => out.kind = "bounds"

\* Page 0 could not be read and got the fallback; page 1 kept its own bounds.
C5_Witness ==
    /\ procResult # None
    /\ procResult.op = "getPageBounds"
    /\ procResult.out.kind = "bounds"
    /\ Len(procResult.out.bounds) = 2
    /\ procResult.id \in DOMAIN documents
    /\ documents[procResult.id].file.rects = <<Unreadable, RectLetter>>
    /\ procResult.out.bounds[1] = A4
    /\ procResult.out.bounds[2].width_pt = 61200

Positive(b) == b.width_pt > 0 /\ b.height_pt > 0

\* C6 as claimed: every PageBounds produced by bounds extraction has
\* width_pt > 0 and height_pt > 0, whatever rectangle the decoder reports.
C6_BoundsPositive ==
    /\ \A id \in DOMAIN documentMetadata :
          \A k \in 1 .. Len(documentMetadata[id].pages) :
              Positive(documentMetadata[id].pages[k])
    /\ (procResult # None /\ procResult.op = "getPageBounds"
        /\ procResult.out.kind = "bounds") =>
          \A k \in 1 .. Len(procResult.out.bounds) : Positive(procResult.out.bounds[k])
    /\ (procResult # None /\ procResult.op = "getPageBound"
        /\ procResult.out.kind = "bound") => Positive(procResult.out.bound)

\* C7: on a password-protected document a wrong password returns false and
\* changes nothing in the registry (a document not yet authenticated stays
\* unauthenticated with no pages); the correct password returns true, sets
\* isAuthenticated and records one bounds entry per page, however many wrong
\* attempts came before.
C7_WrongLeavesRightUnlocks ==
    [][ (/\ procResult' # None
         /\ procResult'.op = "authenticatePassword"
         /\ procResult'.id \in DOMAIN documents
         /\ documents[procResult'.id].file.kind = "locked") =>
            LET id == procResult'.id
            IN  IF procResult'.password # Password
                THEN /\ procResult'.out = Returned(FALSE)
                     /\ UNCHANGED <<documents, documentMetadata, originalBuffers>>
                     /\ id \in DOMAIN documentMetadata
                     /\ ~documentMetadata[id].isAuthenticated =>
                           /\ ~documentMetadata'[id].isAuthenticated
                           /\ documentMetadata'[id].pages = <<>>
                ELSE /\ procResult'.out = Returned(TRUE)
                     /\ id \in DOMAIN documents'
                     /\ documents'[id].file = documents[id].file
                     /\ documentMetadata'[id].isAuthenticated
                     /\ documentMetadata'[id].pageCount = Len(documents[id].file.rects)
                     /\ Len(documentMetadata'[id].pages) = documentMetadata'[id].pageCount
      ]_vars

\* The correct password was accepted for a two-page protected document.
C7_Witness ==
    /\ procResult # None
    /\ procResult.op = "authenticatePassword"
    /\ procResult.out = Returned(TRUE)
    /\ procResult.id \in DOMAIN documentMetadata
    /\ documents[procResult.id].file.kind = "locked"
    /\ documentMetadata[procResult.id].needsPassword
    /\ documentMetadata[procResult.id].isAuthenticated
    /\ Len(documentMetadata[procResult.id].pages) = 2

StageOrder ==
    <<"gamma", "grayscale", "linear", "denoise", "sharpen", "threshold", "colorReplace">>

Position(stage) == CHOOSE k \in 1 .. Len(StageOrder) : StageOrder[k] = stage

Has(seq, x) == \E k \in 1 .. Len(seq) : seq[k] = x

ProcessImageCalled == imgCall # None /\ imgCall.op = "processImage"

\* C8: the stages processImage applies are always in the order gamma,
\* grayscale, linear, denoise, sharpen, threshold, color substitution, and
\* each is applied exactly when its condition on the parameters holds.
C8_FixedStageOrder ==
    ProcessImageCalled =>
        /\ \A k \in 1 .. Len(applied) - 1 :
              Position(applied[k]) < Position(applied[k + 1])
        /\ ~imgCall.codecFails =>
              LET params == imgCall.params
              IN  /\ Has(applied, "gamma") <=> params.gamma # 10
                  /\ Has(applied, "grayscale") <=> params.grayscale
                  /\ Has(applied, "linear") <=>
                        (params.contrast # 10 \/ params.brightness # 0)
                  /\ Has(applied, "denoise") <=> params.denoise
                  /\ Has(applied, "sharpen") <=> params.sharpen.sigma > 0
                  /\ Has(applied, "threshold") <=> params.threshold > 0
                  /\ Has(applied, "colorReplace") <=> params.colorReplace.enabled

\* A call in which all seven stages were applied.
C8_Witness ==
    /\ ProcessImageCalled
    /\ applied = StageOrder

DefaultParams ==
    [gamma |-> 10, grayscale |-> FALSE, contrast |-> 10, brightness |-> 0,
     denoise |-> FALSE, sharpen |-> [sigma |-> 0, flat |-> 10, jagged |-> 20],
     threshold |-> 0, colorReplace |-> ColorReplaceOff]

\* C9: with the default parameters processImage applies no stage and returns
\* the PNG re-encoding of the unmodified input.
C9_DefaultsPassThrough ==
    (ProcessImageCalled /\ imgCall.params = DefaultParams /\ ~imgCall.codecFails) =>
        /\ applied = <<>>
        /\ imgResult = [format |-> "png", raw |-> imgCall.image.raw]

\* processImage returned for an RGBA input under the default parameters.
C9_Witness ==
    /\ ProcessImageCalled
    /\ imgCall.params = DefaultParams
    /\ imgResult # None
    /\ imgResult.format = "png"
    /\ imgResult.raw.channels = 4

\* The R, G and B values of pixel p (0-based) of a raw buffer: its own three
\* colour samples, or its gray value three times. A gray pixel holds a colour
\* as the colour's R value.
OwnRGB(raw, p) ==
    LET base == p * raw.channels
    IN  IF raw.channels >= 3
        THEN <<raw.data[base + 1], raw.data[base + 2], raw.data[base + 3]>>
        ELSE <<raw.data[base + 1], raw.data[base + 1], raw.data[base + 1]>>

HoldsColour(raw, p, colour) ==
    IF raw.channels >= 3 THEN OwnRGB(raw, p) = colour
    ELSE raw.data[p * raw.channels + 1] = colour[1]

PixelOf(raw, p) ==
    [c \in 1 .. raw.channels |-> raw.data[p * raw.channels + c]]

Abs(x) == IF x >= 0 THEN x ELSE -x

\* C10 as claimed: color substitution replaces a pixel exactly when each of
\* the pixel's own R, G and B values is within the tolerance of the target
\* channel; a replaced pixel gets the replacement colour, every other pixel
\* keeps its values.
C10_ReplacesOwnColourOnly ==
    (imgCall # None /\ imgCall.op = "replaceColor") =>
        LET out == imgResult.raw
        IN  \A p \in 0 .. (Len(rawIn.data) \div rawIn.channels) - 1 :
                IF \A c \in 1 .. 3 :
                       Abs(OwnRGB(rawIn, p)[c] - imgCall.targetColor[c])
                           <= imgCall.tolerance
                THEN HoldsColour(out, p, imgCall.replaceColor)
                ELSE PixelOf(out, p) = PixelOf(rawIn, p)

\* Offset o (0-based) of a raw buffer is an alpha sample: the last sample of a
\* gray+alpha or RGBA pixel.
IsAlpha(raw, o) == raw.channels \in {2, 4} /\ o % raw.channels = raw.channels - 1

ColourSubstitutionRan ==
    /\ rawIn # None
    /\ imgResult # None
    /\ imgResult.format = "png"

\* C11 as claimed: color substitution never changes an alpha value and never
\* reads or writes a sample of another pixel, for raw buffers of 1, 2, 3 and
\* 4 channels, also when the grayscale stage ran first in the same call.
C11_AlphaAndNeighboursUntouched ==
    ColourSubstitutionRan =>
        /\ Len(imgResult.raw.data) = Len(rawIn.data)
        /\ \A o \in 0 .. Len(rawIn.data) - 1 :
              IsAlpha(rawIn, o) => imgResult.raw.data[o + 1] = rawIn.data[o + 1]
        /\ \A p \in 0 .. (Len(rawIn.data) \div rawIn.channels) - 1 :
              \A o \in Touched(p * rawIn.channels) :
                  o < Len(rawIn.data) =>
                      /\ o \div rawIn.channels = p
                      /\ ~IsAlpha(rawIn, o)

Validated == imgCall # None /\ imgCall.op = "validateAndCorrectParams"

InRange(lo, hi, v) == lo <= v /\ v <= hi

\* The nearest value of [lo, hi] to v.
Nearest(lo, hi, v) == CHOOSE w \in lo .. hi : \A u \in lo .. hi : Abs(w - v) <= Abs(u - v)

\* C12 as claimed: validateAndCorrectParams always returns, and contrast,
\* brightness, threshold, gamma, sharpen.sigma and colorReplace.tolerance of
\* correctedParams are in their ranges: the input value when it was in range,
\* the nearest bound otherwise.
C12_EveryFieldClamped ==
    Validated =>
        LET in  == imgCall.params
            out == imgResult.correctedParams
        IN  /\ out.contrast = Nearest(1, 30, in.contrast)
            /\ out.brightness = Nearest(-100, 100, in.brightness)
            /\ out.threshold = Nearest(0, 255, in.threshold)
            /\ out.gamma = Nearest(1, 30, in.gamma)
            /\ out.sharpen.sigma = Nearest(0, 100, in.sharpen.sigma)
            /\ out.colorReplace.tolerance = Nearest(0, 50, in.colorReplace.tolerance)
            /\ InRange(0, 50, out.colorReplace.tolerance)

\* C13 as claimed: the warnings list is empty, and valid is true, exactly when
\* correctedParams equals the params passed in, field for field, targetColor
\* and replaceColor included.
C13_WarningsIffCorrected ==
    Validated =>
        /\ imgResult.valid <=> (imgResult.warnings = <<>>)
        /\ (imgResult.warnings = <<>>) <=> (imgResult.correctedParams = imgCall.params)

\* C14 as claimed: when a codec operation fails in a stage of processImage,
\* the call throws, returning no image and no partial result, and the error
\* identifies the stage that failed.
C14_FailureNamesStage ==
    (ProcessImageCalled /\ imgCall.codecFails /\ imgCall.failedStage # "input") =>
        /\ imgResult.format = "error"
        /\ rawIn = None
        /\ imgResult.stage = imgCall.failedStage

\* ---------------------------------------------------------------------------
\* Batches: renderPageBatch and batchProcess
\* ---------------------------------------------------------------------------

RenderBatchCalled == renderCall # None /\ renderCall.op = "renderPageBatch"

BatchProcessCalled == imgCall # None /\ imgCall.op = "batchProcess"

\* The position (1-based) of the first page of the batch that renderPage
\* cannot render, 0 when every page renders.
RECURSIVE FirstFailing(_, _, _)
FirstFailing(batch, options, i) ==
    IF i > Len(batch) THEN 0
    ELSE IF renderPageResult(Handle(RenderFile), batch[i].index, batch[i].bounds,
                             options).kind = "error"
    THEN i
    ELSE FirstFailing(batch, options, i + 1)

\* renderPageBatch: one image per page in input order, or an error naming
\* the index of the page that failed.
RenderBatchOneResultPerPage ==
    RenderBatchCalled =>
        LET batch   == renderCall.pages
            options == renderCall.options
            failed  == FirstFailing(batch, options, 1)
        IN  IF failed = 0
            THEN /\ renderResult.kind = "results"
                 /\ Len(renderResult.results) = Len(batch)
                 /\ \A k \in 1 .. Len(batch) :
                        renderResult.results[k] =
                            renderPageResult(Handle(RenderFile), batch[k].index,
                                             batch[k].bounds, options).image
            ELSE /\ renderResult.kind = "error"
                 /\ "page" \in DOMAIN renderResult
                 /\ renderResult.page = batch[failed].index

\* batchProcess: one processed image per input image in input order, or an
\* error naming the position of the image that failed.
BatchProcessOneResultPerImage ==
    BatchProcessCalled =>
        LET images == imgCall.images
        IN  IF imgCall.failAt = 0
            THEN /\ imgResult.format = "batch"
                 /\ Len(imgResult.results) = Len(images)
                 /\ \A k \in 1 .. Len(images) :
                        imgResult.results[k] =
                            processImageResult(images[k], imgCall.params, "none",
                                               FALSE, images[k].raw)
            ELSE /\ imgResult.format = "error"
                 /\ "page" \in DOMAIN imgResult
                 /\ imgResult.page = imgCall.failAt

\* C15: renderPageBatch and batchProcess each return exactly one result per
\* input page, in input order, or fail with an error that identifies which
\* page failed.
C15_BatchOneResultPerPageOrNamedFailure ==
    /\ RenderBatchOneResultPerPage
    /\ BatchProcessOneResultPerImage

\* ---------------------------------------------------------------------------
\* PageRenderer: scale and pixel size
\* ---------------------------------------------------------------------------

RenderCalled(op) == renderCall # None /\ renderCall.op = op

\* floor(pt * dpi / 72) over the reals, for pt in hundredths of a point and
\* dpi a fraction.
ExactFloor(pt, dpi) ==
    LET scale == Q(dpi.n, 7200 * dpi.d)
    IN  (pt * scale.n) \div scale.d

ExactPixelSize(bounds, dpi) ==
    [width  |-> ExactFloor(bounds.width_pt, dpi),
     height |-> ExactFloor(bounds.height_pt, dpi)]

\* The matrix handed to toPixmap scales both axes by dpi / 72.
UniformScale(matrix, dpi) == matrix.sx = <<dpi, 72>> /\ matrix.sy = <<dpi, 72>>

\* C16: every render, full or preview, scales both axes by dpi / 72, and the
\* reported pixel size is floor(width_pt * dpi / 72) by
\* floor(height_pt * dpi / 72).
C16_UniformScaleAndFloorSize ==
    /\ (RenderCalled("renderPage") /\ renderResult.kind = "image") =>
           /\ UniformScale(renderResult.matrix, renderCall.options.dpi)
           /\ renderResult.pixelSize =
                  ExactPixelSize(renderCall.bounds, Q(renderCall.options.dpi, 1))
    /\ RenderCalled("calculatePixelSize") =>
           renderResult.size = ExactPixelSize(renderCall.bounds, Q(renderCall.dpi, 1))
    /\ (RenderCalled("renderPagePreview") /\ renderResult.kind = "image") =>
           /\ UniformScale(renderResult.matrix, renderResult.dpi)
           /\ renderResult.pixelSize =
                  ExactPixelSize(renderCall.bounds, renderResult.dpi)

\* ---------------------------------------------------------------------------
\* PageRenderer: memory estimate and feasibility
\* ---------------------------------------------------------------------------

FeasibilityChecked == RenderCalled("checkRenderFeasibility")

\* est (hundredths of a megabyte) is totalMemory / 2^20 rounded to two
\* decimals: it is within half a hundredth of it.
RoundsToHundredths(totalMemory, est) ==
    LET rest == totalMemory % BytesPerMB
        frac == est - (totalMemory \div BytesPerMB) * 100
    IN  /\ frac \in 0 .. 100
        /\ 200 * rest - 2 * frac * BytesPerMB <= BytesPerMB
        /\ 2 * frac * BytesPerMB - 200 * rest <= BytesPerMB

EstimateAt(dpi) ==
    TotalMemory(renderCall.bounds, [renderCall.options EXCEPT !.dpi = dpi])

\* floor(width_px * height_px * (channels + 1) * 1.5) summed over the pages,
\* for the pixel sizes of the pages at `dpi` each stretched by `twice` and
\* grown by `more` pixels.
RECURSIVE SumOverPages(_, _, _, _, _)
SumOverPages(bounds, dpi, colorSpace, twice, more) ==
    IF bounds = <<>> THEN 0
    ELSE LET size == PixelSize(Head(bounds), dpi)
             w    == twice * size.width + more
             h    == twice * size.height + more
             bpp  == (IF colorSpace = "Gray" THEN 1 ELSE 3) + 1
         IN  (w * h * bpp * 3) \div 2
             + SumOverPages(Tail(bounds), dpi, colorSpace, twice, more)

\* C18: for a fixed page list and colour mode the estimate (per page
\* floor(width_px * height_px * (channels + 1) * 1.5), summed) does not
\* decrease when the DPI grows; at twice the DPI it is at least four times
\* the estimate, and at most what the pages would need were every pixel
\* dimension doubled and one pixel longer (the slack of the two floors).
C18_EstimateMonotoneAndQuadrupling ==
    FeasibilityChecked =>
        LET bounds     == renderCall.bounds
            dpi        == renderCall.options.dpi
            colorSpace == renderCall.options.colorSpace
            total      == renderResult.totalMemory
        IN  /\ total = SumOverPages(bounds, dpi, colorSpace, 1, 0)
            /\ \A higher \in RenderDpis \cup {dpi + 1, 2 * dpi} :
                   higher >= dpi => EstimateAt(higher) >= total
            /\ EstimateAt(2 * dpi) >= 4 * total
            /\ EstimateAt(2 * dpi) <= SumOverPages(bounds, dpi, colorSpace, 2, 1)

\* A list of several pages whose estimate at twice the DPI is strictly more
\* than four times the estimate.
C18_Witness ==
    /\ FeasibilityChecked
    /\ Len(renderCall.bounds) >= 2
    /\ renderResult.totalMemory > 0
    /\ EstimateAt(2 * renderCall.options.dpi) > 4 * renderResult.totalMemory

\* The order in which the suggestions are said to appear.
SuggestionOrder == <<"reduce DPI", "grayscale", "batch">>

Rank(text) == CHOOSE k \in 1 .. Len(SuggestionOrder) : SuggestionOrder[k] = text

\* C19: an infeasible request returns a non-empty list of suggestions in the
\* order reduce DPI, switch to grayscale, batch the operation; a feasible one
\* returns no suggestions.
C19_SuggestionsWhenInfeasibleInOrder ==
    FeasibilityChecked =>
        IF renderResult.feasible THEN renderResult.suggestions = None
        ELSE /\ renderResult.suggestions # None
             /\ LET list == renderResult.suggestions.list
                IN  /\ Len(list) > 0
                    /\ \A j, k \in 1 .. Len(list) : j < k => Rank(list[j]) < Rank(list[k])

\* ---------------------------------------------------------------------------
\* PageRenderer: preview
\* ---------------------------------------------------------------------------

PreviewRendered == RenderCalled("renderPagePreview") /\ renderResult.kind = "image"

DpiInPreviewRange == QLeq(Q(72, 1), renderResult.dpi) /\ QLeq(renderResult.dpi, Q(144, 1))

FitsTheBox ==
    /\ renderResult.pixelSize.width <= renderCall.maxWidth
    /\ renderResult.pixelSize.height <= renderCall.maxHeight

\* The page is no larger than the box at 72 DPI (one pixel per point).
PageFitsAt72 ==
    /\ renderCall.bounds.width_pt <= 100 * renderCall.maxWidth
    /\ renderCall.bounds.height_pt <= 100 * renderCall.maxHeight

RECURSIVE Flatten(_)
Flatten(chunks) ==
    IF chunks = <<>> THEN <<>> ELSE Head(chunks) \o Flatten(Tail(chunks))

\* The chunks returned are the input pages in input order, each chunk of at
\* most batchSize pages.
ChunksCoverPagesInOrder ==
    LET chunks == batches.results
        made   == Flatten(chunks)
    IN  /\ \A c \in 1 .. Len(chunks) : Len(chunks[c]) <= batches.batchSize
        /\ Len(made) = Len(batches.pages)
        /\ \A k \in 1 .. Len(made) : made[k].source = batches.pages[k].pageIndex

RendersInterleaved(a, b) ==
    \E i, j, k \in 1 .. Len(renderLog) :
        /\ i < j /\ j < k
        /\ renderLog[i].session = a /\ renderLog[k].session = a
        /\ renderLog[j].session = b
        /\ renderLog[i].id = renderLog[j].id /\ renderLog[k].id = renderLog[j].id

\* C22: a document handle is used by one export request at a time: no render
\* of one request on the handle happens between the first and the last render
\* of another request on the same handle.
C22_HandleOwnedByOneExport ==
    \A a, b \in SessionIds : a # b => ~RendersInterleaved(a, b)

\* ---------------------------------------------------------------------------
\* exportWithMetadata against exportProcessedPDF
\* ---------------------------------------------------------------------------

\* The page sizes and embedded images of a saved document.
PageContents(doc) ==
    [k \in 1 .. Len(doc) |->
        [width |-> doc[k].width, height |-> doc[k].height, image |-> doc[k].image]]

\* Two export outcomes agree: both documents with the same pages, or both
\* failures naming the same page.
SameOutcome(a, b) ==
    /\ a.kind = b.kind
    /\ a.kind = "bytes" => PageContents(a.doc) = PageContents(b.doc)
    /\ a.kind = "error" => a.page = b.page

\* C23: for every page list exportWithMetadata produces the page sizes, the
\* embedded images and the success or failure (naming the page) that
\* exportProcessedPDF produces.
C23_MetadataExportTreatsPagesAlike ==
    (exportPc = "done" /\ exportFn = "exportWithMetadata") =>
        SameOutcome(exportResult, exportProcessedPDF(pages))

\* ---------------------------------------------------------------------------
\* The image estimated, announced and embedded
\* ---------------------------------------------------------------------------

\* C24: for every page, a page with an empty processedImage included, the
\* image estimateOutputSize counts and the image validatePagesData announces
\* are the image exportProcessedPDF embeds for that page.
C24_EstimatedAnnouncedAndEmbeddedAgree ==
    /\ (exportPc = "done" /\ exportFn = "estimateOutputSize"
            /\ exportResult.kind = "estimate") =>
           \A k \in 1 .. Len(pages) : exportResult.counted[k] = ImageToEmbed(pages[k])
    /\ (exportPc = "done" /\ exportFn = "validatePagesData") =>
           \A k \in exportResult.willUseOriginal :
               ImageToEmbed(pages[k]) = pages[k].originalImage

\* ---------------------------------------------------------------------------
\* PDFProcessor: the registry
\* ---------------------------------------------------------------------------

\* C25: an openDocument call that throws leaves the registry as it was: no
\* new entry in documents, documentMetadata or originalBuffers, and the same
\* getOpenDocumentCount.
C25_FailedOpenLeavesRegistry ==
    [][ (/\ procResult' # None
         /\ procResult'.op = "openDocument"
         /\ procResult'.out.kind = "error") =>
            /\ UNCHANGED <<documents, documentMetadata, originalBuffers>>
            /\ getOpenDocumentCount(documents') = getOpenDocumentCount(documents)
      ]_vars

RenderHandlerReached ==
    /\ procResult # None
    /\ procResult.op \in {"http:render", "ipc:render"}
    /\ procResult.reached

\* C26: in the HTTP handlers and in the Electron IPC handlers renderPage is
\* reached only for a document whose metadata has isAuthenticated = true: no
\* page of a protected document is rendered before authenticatePassword
\* succeeded.
C26_RenderOnlyWhenAuthenticated ==
    RenderHandlerReached =>
        /\ procResult.id \in DOMAIN documentMetadata
        /\ documentMetadata[procResult.id].isAuthenticated

\* The three maps hold the same documents: documents and originalBuffers have
\* the same keys, and documentMetadata has no key that documents lacks.
RegistryConsistent ==
    /\ DOMAIN documents = DOMAIN originalBuffers
    /\ DOMAIN documentMetadata \subseteq DOMAIN documents

\* C27: after any sequence of openDocument, authenticatePassword,
\* closeDocument and closeAllDocuments calls the key sets of documents and
\* originalBuffers are equal and every key of documentMetadata is a key of
\* documents; a closed id is in none of the three maps, and after
\* closeAllDocuments all three maps are empty.
C27_RegistryMapsAgree ==
    /\ []RegistryConsistent
    /\ [][ (procResult' # None /\ procResult'.op = "closeDocument") =>
               procResult'.id \notin (DOMAIN documents' \cup DOMAIN documentMetadata'
                                      \cup DOMAIN originalBuffers') ]_vars
    /\ [][ (procResult' # None /\ procResult'.op = "closeAllDocuments") =>
               /\ documents' = EmptyMap
               /\ documentMetadata' = EmptyMap
               /\ originalBuffers' = EmptyMap ]_vars

\* One document was closed while another, whose openDocument threw before
\* its metadata was stored, is still registered.
C27_Witness ==
    /\ procResult # None
    /\ procResult.op = "closeDocument"
    /\ procResult.id \notin DOMAIN documents
    /\ \E other \in DOMAIN documents : other \notin DOMAIN documentMetadata

\* C28: validateAndCorrectParams leaves its argument unchanged, the nested
\* sharpen and colorReplace objects included: the corrections show only in
\* the correctedParams returned.
C28_ArgumentLeftUnchanged ==
    Validated => imgResult.params = imgCall.params

\* ---------------------------------------------------------------------------
\* The Electron export path
\* ---------------------------------------------------------------------------

ElectronPageExported == imgCall # None /\ imgCall.op = "exportPDF"

\* C29: in the Electron export path a page is run through the enhancement
\* chain whenever the parameters enable at least one stage, color
\* substitution included, and is exported unprocessed only when no stage is
\* enabled.
C29_ProcessedWheneverAStageIsEnabled ==
    ElectronPageExported =>
        /\ Stages(imgCall.params) # <<>> =>
               /\ imgResult.processedImage # None
               /\ applied = Stages(imgCall.params)
        /\ Stages(imgCall.params) = <<>> => imgResult.exported = imgResult.originalImage

\* ---------------------------------------------------------------------------
\* App: opening a document, clicking the panel title, exporting
\* ---------------------------------------------------------------------------

\* A page's text is a sequence of characters; a page whose text cannot be
\* read (pdf.ts:371-374) has none.
Chars(str) ==
    CASE str = "CISCO"     -> <<"C", "I", "S", "C", "O">>
      [] str = "francisco" -> <<"f", "r", "a", "n", "c", "i", "s", "c", "o">>
      [] str = "disco"     -> <<"d", "i", "s", "c", "o">>
      [] OTHER             -> <<>>

PageTexts ==
    {[text |-> Chars(str)] : str \in {"", "CISCO", "francisco", "disco"}} \cup {None}

MaxTextPages == 2

DocTexts == UNION {[1..n -> PageTexts] : n \in 1..MaxTextPages}

\* pdf.ts:366: toLowerCase, on the characters the texts are made of.
toLowerCase(text) ==
    [k \in 1..Len(text) |->
        CASE text[k] = "C" -> "c"
          [] text[k] = "I" -> "i"
          [] text[k] = "S" -> "s"
          [] text[k] = "O" -> "o"
          [] OTHER         -> text[k]]

\* String.prototype.includes.
includes(text, needle) ==
    \E k \in 0..(Len(text) - Len(needle)) :
        SubSeq(text, k + 1, k + Len(needle)) = needle

\* pdf.ts:354-356: the encoded string decodes to "ocsic"; the target is that
\* string reversed.
ccccDecoded == <<"o", "c", "s", "i", "c">>
ccccTarget == [k \in 1..Len(ccccDecoded) |-> ccccDecoded[Len(ccccDecoded) + 1 - k]]

\* pdf.ts:351-382: true when some readable page's text contains the target,
\* whatever the case of its letters.
ccccContentCheck(texts) ==
    \E i \in 1..Len(texts) :
        /\ texts[i] # None
        /\ includes(toLowerCase(texts[i].text), toLowerCase(ccccTarget))

\* App.tsx:718-723.
shouldResetForExport ==
    IF app.ccccDisabled \/ app.currentPDF = None \/ ~app.currentPDF.ccccCheckResult
    THEN FALSE
    ELSE TRUE

\* App.tsx:747-760: the parameters handleExport substitutes.
ResetParams ==
    [gamma |-> 10, grayscale |-> FALSE, contrast |-> 10, brightness |-> 0,
     denoise |-> FALSE, sharpen |-> [sigma |-> 0, flat |-> 10, jagged |-> 20],
     threshold |-> 0, colorReplace |-> ColorReplaceOff]

\* The export options the dialog hands to handleExport.
ExportOptions ==
    [pageIndices : {<<0>>, <<0, 1>>},
     processingParams : {ResetParams,
                         [ResetParams EXCEPT !.grayscale = TRUE],
                         [ResetParams EXCEPT !.contrast = 15, !.threshold = 128],
                         [ResetParams EXCEPT !.colorReplace = ColorReplaceOn]}]

\* App.tsx:560-625 with pdf.ts:65: a file is opened; the server's document
\* carries ccccCheckResult.
handleFileUpload(id, texts) ==
    /\ app' = [app EXCEPT !.currentPDF =
                   [id |-> id, pageCount |-> Len(texts),
                    ccccCheckResult |-> ccccContentCheck(texts)]]
    /\ UNCHANGED appFrame

\* App.tsx:706-715.
handleTitleClick ==
    /\ ~app.ccccDisabled                                           \* App.tsx:707
    /\ LET newCount == app.ccccClickCount + 1
       IN  app' = [app EXCEPT !.ccccClickCount = newCount,
                              !.ccccDisabled = (newCount >= 10)]
    /\ UNCHANGED appFrame

\* App.tsx:736-792: what handleExport passes to apiClient.exportPDF.
handleExport(exportOptions) ==
    /\ app.currentPDF # None                                       \* App.tsx:737
    /\ LET finalParams == IF shouldResetForExport THEN ResetParams
                          ELSE exportOptions.processingParams
       IN  app' = [app EXCEPT !.exported =
                       [id               |-> app.currentPDF.id,
                        exportOptions    |-> exportOptions,
                        pageIndices      |-> exportOptions.pageIndices,
                        processingParams |-> finalParams,
                        ccccDisabled     |-> app.ccccDisabled]]
    /\ UNCHANGED appFrame

\* App.tsx:794-812.
handleNewFile ==
    /\ app.currentPDF # None
    /\ app' = [app EXCEPT !.currentPDF = None]
    /\ UNCHANGED appFrame

AppInit == ExportInit

AppNext ==
    \/ \E id \in DocIds, texts \in DocTexts : handleFileUpload(id, texts)
    \/ handleTitleClick
    \/ \E exportOptions \in ExportOptions : handleExport(exportOptions)
    \/ handleNewFile

SpecApp == AppInit /\ [][AppNext]_vars

\* C30: handleExport passes the processingParams of the export options to
\* the export call unchanged, for every opened document and however many
\* times the panel title was clicked.
C30_ExportParamsPassedUnchanged ==
    app.exported # None =>
        app.exported.processingParams = app.exported.exportOptions.processingParams

====
